---- MODULE Spec2Model ----
(***************************************************************************)
(* Model of the Lectio scraping service: the credential store              *)
(* (lectioCreds), the authenticated fetch with manual redirects            *)
(* (src/lib/lectio.ts) and the per-student schedule scrape                 *)
(* (src/app/lectio/student/scrapeWeek/route.ts).                           *)
(*                                                                         *)
(* Text is modelled as a sequence of tokens: the delimiters the code's     *)
(* regular expressions look at (",", ";", "=", " ") are tokens of their    *)
(* own, every other token is a word without delimiters.  Instants are      *)
(* natural numbers (ticks of the clock `now`).                             *)
(***************************************************************************)
EXTENDS Integers, Sequences, FiniteSets, TLC

\* ---------------------------------------------------------------- bounds
\* the clock stops ticking here
MaxClock == 1

\* the scrape invocations: two deliveries of the task queue, which may
\* overlap or follow each other
Invocations == {1, 2}

\* ------------------------------------------------------- token sequences
RECURSIVE JoinTokens(_)
JoinTokens(ts) ==
  IF ts = <<>> THEN "" ELSE Head(ts) \o JoinTokens(Tail(ts))

RECURSIVE TrimLeft(_)
TrimLeft(ts) ==
  IF ts # <<>> /\ Head(ts) = " " THEN TrimLeft(Tail(ts)) ELSE ts

RECURSIVE TrimRight(_)
TrimRight(ts) ==
  IF ts # <<>> /\ ts[Len(ts)] = " "
  THEN TrimRight(SubSeq(ts, 1, Len(ts) - 1))
  ELSE ts

\* String.prototype.trim
Trim(ts) == TrimRight(TrimLeft(ts))

\* index of the first occurrence of token t in ts, 0 when there is none
IndexOf(ts, t) ==
  IF \E i \in 1..Len(ts) : ts[i] = t
  THEN CHOOSE i \in 1..Len(ts) :
         ts[i] = t /\ \A j \in 1..(i - 1) : ts[j] # t
  ELSE 0

\* String.prototype.includes, on tokens
Includes(ts, t) == \E i \in 1..Len(ts) : ts[i] = t

\* obj[k] = v on a JavaScript object
Put(f, k, v) == [x \in (DOMAIN f) \cup {k} |-> IF x = k THEN v ELSE f[x]]

\* {} : the object without keys
EmptyObject == [x \in {} |-> 0]

\* the value `undefined` of an optional instant
Undefined == -1

\* --------------------------------------------------- Set-Cookie parsing
\* new Date(text): the instant of a calendar date, NaN (Undefined) for text
\* that is not a date.  A date is "Wdy, <date>" or "<date>".
DateInstant(word) ==
  CASE word = "21 Oct 2026 07:28:00 GMT" -> 7
    [] word = "22 Oct 2026 07:28:00 GMT" -> 8
    [] OTHER -> Undefined

NewDate(ts) ==
  LET t == Trim(ts) IN
  IF Len(t) = 1 THEN DateInstant(t[1])
  ELSE IF Len(t) = 4 /\ t[1] \in {"Wed", "Thu"} /\ t[2] = "," /\ t[3] = " "
       THEN DateInstant(t[4])
       ELSE Undefined

\* parseInt(text, 10) of a match of \d+ ; Undefined when it is not digits
ParseDigits(word) ==
  CASE word = "0" -> 0
    [] word = "1" -> 1
    [] word = "2" -> 2
    [] OTHER -> Undefined

\* the tokens of ts from index i up to, not including, the next ";"
UpToSemicolon(ts, i) ==
  LET rest == SubSeq(ts, i, Len(ts))
      s == IndexOf(rest, ";")
  IN IF s = 0 THEN rest ELSE SubSeq(rest, 1, s - 1)

\* the least element of a non-empty set of indices, 0 for the empty set
FirstIndex(hits) ==
  IF hits = {} THEN 0 ELSE CHOOSE i \in hits : \A j \in hits : i <= j

\* cookieString.match(/expires=([^;]+)/i): index of the attribute name of
\* the first match, 0 when there is none
ExpiresIndex(ts) ==
  FirstIndex({i \in 1..(Len(ts) - 2) :
                /\ ts[i] \in {"expires", "Expires"}
                /\ ts[i + 1] = "="
                /\ ts[i + 2] # ";"})

\* cookieString.match(/max-age=(\d+)/i): index of the attribute name of
\* the first match, 0 when there is none
MaxAgeIndex(ts) ==
  FirstIndex({i \in 1..(Len(ts) - 2) :
                /\ ts[i] \in {"max-age", "Max-Age"}
                /\ ts[i + 1] = "="
                /\ ParseDigits(ts[i + 2]) # Undefined})

\* parseExpiration(cookieString), at instant clock
parseExpiration(cookieString, clock) ==
  LET e == ExpiresIndex(cookieString)
      expiresDate ==
        IF e = 0 THEN Undefined
        ELSE NewDate(UpToSemicolon(cookieString, e + 2))
      m == MaxAgeIndex(cookieString)
  IN IF expiresDate # Undefined THEN expiresDate
     ELSE IF m # 0 THEN clock + ParseDigits(cookieString[m + 2])
     ELSE Undefined

\* the lookahead (?=[^,]+=) at the start of rest
LooksLikeAssignment(rest) ==
  \E k \in 2..Len(rest) :
    rest[k] = "=" /\ \A j \in 1..(k - 1) : rest[j] # ","

\* setCookieHeader.split(/,(?=[^,]+=)/)
RECURSIVE SplitCookieHeader(_, _, _)
SplitCookieHeader(h, cur, acc) ==
  IF h = <<>> THEN Append(acc, cur)
  ELSE IF Head(h) = "," /\ LooksLikeAssignment(Tail(h))
       THEN SplitCookieHeader(Tail(h), <<>>, Append(acc, cur))
       ELSE SplitCookieHeader(Tail(h), Append(cur, Head(h)), acc)

\* cookieStr.match(/^([^=]+)=([^;]*)/)
CookieMatch(cookieStr) == IndexOf(cookieStr, "=") >= 2

CookieName(cookieStr) ==
  JoinTokens(Trim(SubSeq(cookieStr, 1, IndexOf(cookieStr, "=") - 1)))

CookieValue(cookieStr) ==
  JoinTokens(Trim(UpToSemicolon(cookieStr, IndexOf(cookieStr, "=") + 1)))

\* one entry of the jar: expiresAt is a field only when it is defined
CookieData(value, expiresAt) ==
  IF expiresAt # Undefined
  THEN [value |-> value, expiresAt |-> expiresAt]
  ELSE [value |-> value]

RECURSIVE ParseCookieStrings(_, _, _)
ParseCookieStrings(cookieStrings, cookies, clock) ==
  IF cookieStrings = <<>> THEN cookies
  ELSE LET cookieStr == Head(cookieStrings) IN
       ParseCookieStrings(
         Tail(cookieStrings),
         IF CookieMatch(cookieStr)
         THEN Put(cookies, CookieName(cookieStr),
                  CookieData(CookieValue(cookieStr),
                             parseExpiration(cookieStr, clock)))
         ELSE cookies,
         clock)

\* parseAllCookies(setCookieHeader), at instant clock
parseAllCookies(setCookieHeader, clock) ==
  ParseCookieStrings(SplitCookieHeader(setCookieHeader, <<>>, <<>>),
                     EmptyObject, clock)

\* ------------------------------------------------------ schedule parser
\* an optional string that is `undefined`
NoString == "<undefined>"

\* line.startsWith(label)
StartsWith(line, label) == line # <<>> /\ line[1] = label

\* line.replace(label, "") : removes the first occurrence
Replace(line, label) ==
  LET k == IndexOf(line, label) IN
  IF k = 0 THEN line
  ELSE SubSeq(line, 1, k - 1) \o SubSeq(line, k + 1, Len(line))

\* lines.join(" "), as tokens
RECURSIVE JoinLines(_)
JoinLines(lines) ==
  IF lines = <<>> THEN <<>>
  ELSE IF Len(lines) = 1 THEN Head(lines)
  ELSE Head(lines) \o <<" ">> \o JoinLines(Tail(lines))

\* calendar dates of the time line, DD/MM-YYYY : days since 2025-10-20
DayNumber(word) ==
  CASE word = "20/10-2025" -> 0
    [] word = "21/10-2025" -> 1
    [] OTHER -> Undefined

\* clock times HH:MM : minutes since midnight
MinuteOfDay(word) ==
  CASE word = "08:10" -> 490
    [] word = "09:50" -> 590
    [] word = "23:30" -> 1410
    [] OTHER -> Undefined

MinutesPerDay == 1440

\* parseDateTime(dateTimeStr): the instant Date.UTC(year, month - 1, day,
\* hour, minute) in minutes since 2025-10-20T00:00Z, Undefined for null
parseDateTime(dateTimeStr) ==
  LET hits == {i \in 1..(Len(dateTimeStr) - 2) :
                 /\ DayNumber(dateTimeStr[i]) # Undefined
                 /\ dateTimeStr[i + 1] = " "
                 /\ MinuteOfDay(dateTimeStr[i + 2]) # Undefined}
  IN IF hits = {} THEN Undefined
     ELSE LET i == CHOOSE h \in hits : \A j \in hits : h <= j IN
          DayNumber(dateTimeStr[i]) * MinutesPerDay
            + MinuteOfDay(dateTimeStr[i + 2])

\* timeStr.match(/til\s+(\d{2}):(\d{2})/) : minutes since midnight of the
\* captured HH:MM, Undefined when there is no match
EndMatch(timeStr) ==
  LET hits == {i \in 1..(Len(timeStr) - 1) :
                 /\ timeStr[i] = " til "
                 /\ MinuteOfDay(timeStr[i + 1]) # Undefined}
  IN IF hits = {} THEN Undefined
     ELSE LET i == CHOOSE h \in hits : \A j \in hits : h <= j IN
          MinuteOfDay(timeStr[i + 1])

\* endDate.setHours(hour, minute) on a machine tz minutes east of UTC
SetHours(instant, minuteOfDay, tz) ==
  LET local == instant + tz
      midnight == local - (local % MinutesPerDay)
  IN midnight + minuteOfDay - tz

\* the end instant of a tile
EndAt(startAt, timeStr, tz) ==
  IF EndMatch(timeStr) # Undefined
  THEN SetHours(startAt, EndMatch(timeStr), tz)
  ELSE startAt + 120

Labels ==
  {"Hold:", "Lærer:", "Lærere:", "Lokale:", "Note:", "Lektier:", "Elever:"}

\* variant: only the Hold: label keeps a line from being a title
IsLabelledHoldOnly(line) == StartsWith(line, "Hold:")

IsLabelled(line) == \E l \in Labels : StartsWith(line, l)

IsTimeLine(line) == Includes(line, " til ") \/ Includes(line, "Hele dagen")

\* the lines after index i a Note: section collects
RECURSIVE NoteLines(_, _)
NoteLines(lines, j) ==
  IF j > Len(lines) THEN <<>>
  ELSE IF StartsWith(lines[j], "Lektier:") \/ lines[j] = <<>> THEN <<>>
  ELSE <<lines[j]>> \o NoteLines(lines, j + 1)

\* the lines after index i a Lektier: section collects
RECURSIVE HomeworkLines(_, _)
HomeworkLines(lines, j) ==
  IF j > Len(lines) THEN <<>>
  ELSE IF lines[j] # <<>>
       THEN <<lines[j]>> \o HomeworkLines(lines, j + 1)
       ELSE HomeworkLines(lines, j + 1)

NoFields ==
  [timeStr |-> <<>>, hold |-> "", teacher |-> NoString, room |-> NoString,
   note |-> NoString, homework |-> NoString, title |-> NoString]

\* the loop over the lines of one tooltip; i is the 1-based line index
RECURSIVE ClassifyLines(_, _, _)
ClassifyLines(lines, i, f) ==
  IF i > Len(lines) THEN f
  ELSE
    LET line == lines[i] IN
    ClassifyLines(lines, i + 1,
      IF IsTimeLine(line) THEN [f EXCEPT !.timeStr = line]
      ELSE IF ~IsLabelled(line) /\ line # <<>> /\ i > 1
              /\ f.title = NoString
        THEN [f EXCEPT !.title = JoinTokens(line)]
      ELSE IF StartsWith(line, "Hold:")
        THEN [f EXCEPT !.hold = JoinTokens(Trim(Replace(line, "Hold:")))]
      ELSE IF StartsWith(line, "Lærer:") \/ StartsWith(line, "Lærere:")
        THEN [f EXCEPT !.teacher =
                JoinTokens(Trim(Replace(Replace(line, "Lærer:"),
                                        "Lærere:")))]
      ELSE IF StartsWith(line, "Lokale:")
        THEN [f EXCEPT !.room = JoinTokens(Trim(Replace(line, "Lokale:")))]
      ELSE IF StartsWith(line, "Note:")
        THEN [f EXCEPT !.note =
                JoinTokens(Trim(JoinLines(
                  <<Trim(Replace(line, "Note:"))>>
                    \o NoteLines(lines, i + 1))))]
      ELSE IF StartsWith(line, "Lektier:")
        THEN [f EXCEPT !.homework =
                JoinTokens(Trim(JoinLines(
                  <<Trim(Replace(line, "Lektier:"))>>
                    \o HomeworkLines(lines, i + 1))))]
      ELSE f)

\* a field of an object that removeUndefined keeps only when it is defined
Optional(name, value, undef) ==
  IF value = undef THEN EmptyObject ELSE name :> value

\* tooltip.split("\n").map((l) => l.trim())
RECURSIVE TrimAll(_)
TrimAll(lines) ==
  IF lines = <<>> THEN <<>>
  ELSE <<Trim(Head(lines))>> \o TrimAll(Tail(lines))

\* variant: the change marker is not looked for
StatusOfCancelledOnly(lines) ==
  IF lines[1] = <<"Aflyst!">> THEN "CANCELLED" ELSE "OK"

\* the status line 0 of a tooltip stands for
StatusOf(lines) ==
  IF lines[1] = <<"Ændret!">> THEN "MOVED"
  ELSE IF lines[1] = <<"Aflyst!">> THEN "CANCELLED"
  ELSE "OK"

\* variant: the title comes before the class as the subject
TileEventsTitleFirst(tile, clock, tz) ==
  IF tile.tooltip = <<>> THEN <<>>
  ELSE
    LET split == TrimAll(tile.tooltip)
        status == StatusOf(split)
        lastChangedAt == IF status = "OK" THEN Undefined ELSE clock
        lines == IF status = "OK" THEN split ELSE Tail(split)
        f == ClassifyLines(lines, 1, NoFields)
        absId == JoinTokens(Replace(tile.brikid, "ABS"))
        startAt == parseDateTime(f.timeStr)
    IN IF startAt = Undefined THEN <<>>
       ELSE <<
         [id |-> absId,
          startAt |-> startAt,
          endAt |-> EndAt(startAt, f.timeStr, tz),
          subject |-> IF f.title # NoString THEN f.title
                      ELSE IF f.hold # "" THEN f.hold
                      ELSE "Ukendt",
          classKey |-> IF f.hold # "" THEN f.hold ELSE "unknown",
          status |-> status,
          absId |-> absId,
          time |-> JoinTokens(f.timeStr),
          hold |-> f.hold]
         @@ Optional("room", f.room, NoString)
         @@ Optional("teacher", f.teacher, NoString)
         @@ Optional("lastChangedAt", lastChangedAt, Undefined)
         @@ Optional("note", f.note, NoString)
         @@ Optional("homework", f.homework, NoString)
         @@ Optional("title", f.title, NoString) >>

\* the event of one tile, as a sequence of zero or one events: a tile
\* without tooltip or with an unparsable start is left out
TileEvents(tile, clock, tz) ==
  IF tile.tooltip = <<>> THEN <<>>
  ELSE
    LET split == TrimAll(tile.tooltip)
        status == StatusOf(split)
        lastChangedAt == IF status = "OK" THEN Undefined ELSE clock
        lines == IF status = "OK" THEN split ELSE Tail(split)
        f == ClassifyLines(lines, 1, NoFields)
        absId == JoinTokens(Replace(tile.brikid, "ABS"))
        startAt == parseDateTime(f.timeStr)
    IN IF startAt = Undefined THEN <<>>
       ELSE <<
         [id |-> absId,
          startAt |-> startAt,
          endAt |-> EndAt(startAt, f.timeStr, tz),
          subject |-> IF f.hold # "" THEN f.hold
                      ELSE IF f.title # NoString THEN f.title
                      ELSE "Ukendt",
          classKey |-> IF f.hold # "" THEN f.hold ELSE "unknown",
          status |-> status,
          absId |-> absId,
          time |-> JoinTokens(f.timeStr),
          hold |-> f.hold]
         @@ Optional("room", f.room, NoString)
         @@ Optional("teacher", f.teacher, NoString)
         @@ Optional("lastChangedAt", lastChangedAt, Undefined)
         @@ Optional("note", f.note, NoString)
         @@ Optional("homework", f.homework, NoString)
         @@ Optional("title", f.title, NoString) >>

RECURSIVE CellEvents(_, _, _)
CellEvents(tiles, clock, tz) ==
  IF tiles = <<>> THEN <<>>
  ELSE TileEvents(Head(tiles), clock, tz)
         \o CellEvents(Tail(tiles), clock, tz)

\* the loop over the td[data-date] cells: eventsByDate
RECURSIVE ParseCells(_, _, _, _)
ParseCells(cells, eventsByDate, clock, tz) ==
  IF cells = <<>> THEN eventsByDate
  ELSE
    LET cell == Head(cells)
        events == CellEvents(cell.tiles, clock, tz)
        old == IF cell.date \in DOMAIN eventsByDate
               THEN eventsByDate[cell.date] ELSE <<>>
    IN ParseCells(Tail(cells),
                  IF cell.date = "" \/ events = <<>> THEN eventsByDate
                  ELSE Put(eventsByDate, cell.date, old \o events),
                  clock, tz)

\* createHash("sha256").update(JSON.stringify(events)).digest("hex"):
\* an injective function of the serialised event list
Sha256(events) == <<"sha256", events>>

\* ---------------------------------------------------- the remote source
RobotMarkers == {"Af hensyn til sikkerheden", "ikke er en robot", "captcha"}

\* html.includes(marker) for one of the markers
HasRobotMarker(html) == \E m \in RobotMarkers : m \in html.phrases

TileOk ==
  [brikid |-> <<"ABS", "101">>,
   tooltip |-> << <<"20/10-2025", " ", "08:10", " til ", "09:50">>,
                  <<"Hold:", " ", "1a MA">>,
                  <<"Lokale:", " ", "12">> >>]

TileCancelled ==
  [brikid |-> <<"ABS", "102">>,
   tooltip |-> << <<"Aflyst!">>,
                  <<"20/10-2025", " ", "08:10", " til ", "09:50">>,
                  <<"Hold:", " ", "1a MA">> >>]

TileNextDay ==
  [brikid |-> <<"ABS", "103">>,
   tooltip |-> << <<"21/10-2025", " ", "08:10", " til ", "09:50">>,
                  <<"Hold:", " ", "1a DA">> >>]

\* a week with two days of lessons, nothing changed
PagePlain ==
  [phrases |-> {},
   cells |-> << [date |-> "2025-10-20", tiles |-> <<TileOk>>],
                [date |-> "2025-10-21", tiles |-> <<TileNextDay>>] >>]

\* a week in which a lesson was cancelled
PageCancelled ==
  [phrases |-> {},
   cells |-> << [date |-> "2025-10-20", tiles |-> <<TileCancelled>>],
                [date |-> "2025-10-21", tiles |-> <<TileNextDay>>] >>]

\* a week whose second day has no lesson
PageOneDay ==
  [phrases |-> {},
   cells |-> << [date |-> "2025-10-20", tiles |-> <<TileOk>>],
                [date |-> "2025-10-21", tiles |-> <<>>] >>]

RobotPage ==
  [phrases |-> {"Af hensyn til sikkerheden", "ikke er en robot"},
   cells |-> <<>>]

ErrorPage == [phrases |-> {}, cells |-> <<>>]

SchedulePages == {PagePlain, PageCancelled}

\* Set-Cookie header lines of the remote, one cookie definition each
SetKey == <<"autologinkeyV2", "=", "k2">>
SetSession == <<"ASP.NET_SessionId", "=", "sid2">>
SetKeyExpiresPath ==
  <<"autologinkeyV2", "=", "k2", ";", " ", "expires", "=", "Wed", ",", " ",
    "21 Oct 2026 07:28:00 GMT", ";", " ", "path", "=", "/">>

\* the Set-Cookie lines of one response; <<>> is a response without any
SetCookieHeaders ==
  {<<>>, <<SetKey>>, <<SetSession>>, <<SetKeyExpiresPath, SetSession>>}

\* response.headers.get("set-cookie"): the lines joined by ", "
RECURSIVE HeadersGet(_)
HeadersGet(setCookieLines) ==
  IF setCookieLines = <<>> THEN <<>>
  ELSE IF Len(setCookieLines) = 1 THEN Head(setCookieLines)
  ELSE Head(setCookieLines) \o <<",", " ">>
         \o HeadersGet(Tail(setCookieLines))

RedirectStatuses == {301, 302, 303, 307, 308}

\* what the remote may answer to one request; among the answers are one
\* that clears the session cookie with an empty value, a week whose second
\* day has no lesson, and one that sets the key to the stored value with a
\* later expiry
Responses ==
  {[status |-> 302, location |-> TRUE, html |-> ErrorPage, setCookie |-> h] :
     h \in {<<>>, <<SetKey>>}}
  \cup
  {[status |-> 302, location |-> FALSE, html |-> ErrorPage,
    setCookie |-> <<>>]}
  \cup
  {[status |-> 200, location |-> FALSE, html |-> b, setCookie |-> h] :
     b \in SchedulePages, h \in SetCookieHeaders}
  \cup
  {[status |-> 200, location |-> FALSE, html |-> PagePlain,
    setCookie |-> << <<"ASP.NET_SessionId", "=", ";", " ", "path", "=",
                       "/">> >>]}
  \cup
  {[status |-> 200, location |-> FALSE, html |-> PageOneDay,
    setCookie |-> <<>>]}
  \cup
  {[status |-> 200, location |-> FALSE, html |-> PagePlain,
    setCookie |-> << <<"autologinkeyV2", "=", "k1", ";", " ", "expires", "=",
                       "Thu", ",", " ", "22 Oct 2026 07:28:00 GMT">>,
                     SetSession >>]}
  \cup
  {[status |-> s, location |-> FALSE, html |-> RobotPage, setCookie |-> <<>>] :
     s \in {200, 500}}
  \cup
  {[status |-> 500, location |-> FALSE, html |-> ErrorPage,
    setCookie |-> <<>>]}

NoResponse ==
  [status |-> 0, location |-> FALSE, html |-> ErrorPage, setCookie |-> <<>>]

\* ------------------------------------------------------------- the state
VARIABLES
  lectioCreds,   \* collection lectioCreds: studentId -> credential document
  schedules,     \* collection .../schedules: <<schoolId, studentId, date>> -> day
  dayWrites,     \* number of writes each schedule document has received
  now,           \* the clock
  tzOffset,      \* offset of the machine's time zone, minutes east of UTC
  inv,           \* the scrape invocations (POST /lectio/student/scrapeWeek)
  snapshot,      \* the documents the scheduler's enumeration yields, in order
  scheduler,     \* the scheduler invocation (fan-out POST)
  qstash,        \* the queue: publish calls in flight, chunks received
  cookieCall,    \* a call of parseAllCookies: its header and its result
  parseCall,     \* a parse of a schedule page: its cells and its result
  weekCall       \* a call of getWeekKey: its date and its result

scrapeVars == <<lectioCreds, schedules, dayWrites, now, tzOffset, inv>>

fanoutVars == <<snapshot, scheduler, qstash>>

\* the state the scrape route does not touch
auxVars == <<fanoutVars, cookieCall, parseCall, weekCall>>

vars == <<scrapeVars, auxVars>>

\* studentId of the jobs the queue delivers: none, a known, an unknown one
JobStudentIds == {"", "7272", "9999"}

\* variant: the loop condition lets one more hop through
maxRedirectsOneMore == 5 + 1

maxRedirects == 5

InitialCookies ==
  ("autologinkeyV2" :> [value |-> "k1", expiresAt |-> 7])
  @@ ("ASP.NET_SessionId" :> [value |-> "sid1"])

\* the document the authentication route stores for a student
InitialCredential ==
  [schoolId |-> "94", studentId |-> "7272", cookies |-> InitialCookies,
   active |-> TRUE, createdAt |-> 0, updatedAt |-> 0,
   autologinkey |-> "k1", autologinkeyExpiresAt |-> 7]

\* no Response returned yet
NoAnswer == [status |-> 0, text |-> <<>>]

IdleInvocation ==
  [pc |-> "idle", studentId |-> "", schoolId |-> "",
   storedCookies |-> EmptyObject, redirectCount |-> 0, requests |-> 0,
   maxRedirectsReached |-> FALSE, finalResponse |-> NoResponse,
   thrown |-> "", error |-> <<>>,
   updatedCookies |-> EmptyObject, completeCookieJar |-> EmptyObject,
   html |-> ErrorPage, parsedAt |-> Undefined, eventsByDate |-> EmptyObject,
   batch |-> EmptyObject, status |-> 0, markCalls |-> 0, credWrites |-> 0,
   credsActive |-> FALSE, cookieParts |-> EmptyObject]

\* the scheduler before its request arrives
IdleScheduler ==
  [pc |-> "idle", route |-> "", next |-> 1, batch |-> <<>>, totalJobs |-> 0,
   skippedJobs |-> 0, batchCount |-> 0, chunks |-> <<>>,
   response |-> NoAnswer]

\* the queue with no call in flight and nothing received
EmptyQueue == [inFlight |-> EmptyObject, received |-> <<>>]

\* parseAllCookies is not called
NoCookieCall ==
  [definitions |-> <<>>, returned |-> FALSE, cookies |-> EmptyObject]

\* no page is parsed
NoParseCall ==
  [cells |-> <<>>, returned |-> FALSE, eventsByDate |-> EmptyObject,
   counters |-> EmptyObject]

\* getWeekKey is not called
NoWeekCall == [date |-> 0, returned |-> FALSE, key |-> ""]

Init ==
  /\ lectioCreds = ("7272" :> InitialCredential)
  /\ schedules = EmptyObject
  /\ dayWrites = EmptyObject
  /\ now = 0
  /\ tzOffset = 0
  /\ inv = [i \in Invocations |-> IdleInvocation]
  /\ snapshot = <<>>
  /\ scheduler = IdleScheduler
  /\ qstash = EmptyQueue
  /\ cookieCall = NoCookieCall
  /\ parseCall = NoParseCall
  /\ weekCall = NoWeekCall

\* --------------------------------------------------------- the actions
\* Firestore update(): the named fields are replaced, the others are kept
UpdateDoc(doc, updates) == updates @@ doc

\* finalResponse.ok
ResponseOk(response) == response.status >= 200 /\ response.status <= 299

\* `${finalResponse.status} ${finalResponse.statusText}`
StatusLine(status) ==
  CASE status = 500 -> "500 Internal Server Error"
    [] status = 302 -> "302 Found"
    [] OTHER -> "0"

\* variant: every fetch error is taken for a robot detection
CatchFetchErrorMarksAll(me, thrown, error) ==
  [me EXCEPT !.thrown = thrown, !.error = error, !.pc = "mark"]

\* the catch block of the route around fetchLectioForStudent: a robot
\* detection error goes on to markCredentialsInactive, any other error ends
\* the invocation with status 500
CatchFetchError(me, thrown, error) ==
  IF Includes(error, "Robot detection")
  THEN [me EXCEPT !.thrown = thrown, !.error = error, !.pc = "mark"]
  ELSE [me EXCEPT !.thrown = thrown, !.error = error, !.pc = "done",
                  !.status = 500]

\* the cookie values sent: cookieValues[name] = cookieData.value
CookieValues(storedCookies) ==
  [n \in DOMAIN storedCookies |-> storedCookies[n].value]

\* cookieParts: the name=value pairs of the Cookie header, one for each
\* cookie with a value
CookieParts(cookies) ==
  [n \in {m \in DOMAIN cookies : cookies[m] # ""} |-> cookies[n]]

\* the cookies of newCookies whose value differs from the value in cookies
UpdatedCookies(newCookies, cookies) ==
  [n \in {m \in DOMAIN newCookies :
            m \notin DOMAIN cookies \/ newCookies[m].value # cookies[m]}
     |-> newCookies[n]]

\* completeCookieJar = { ...storedCookies } with the updated cookies put in
CompleteCookieJar(storedCookies, updatedCookies) ==
  [n \in (DOMAIN storedCookies) \cup (DOMAIN updatedCookies) |->
     IF n \in DOMAIN updatedCookies THEN updatedCookies[n]
     ELSE storedCookies[n]]

\* variant: the jar is written after every successful fetch
FinishFetchAlwaysSaves(me, clock) ==
  LET response == me.finalResponse
      cookies == CookieValues(me.storedCookies)
      setCookieHeader == HeadersGet(response.setCookie)
      newCookies ==
        IF setCookieHeader # <<>>
        THEN parseAllCookies(setCookieHeader, clock)
        ELSE EmptyObject
      updatedCookies == UpdatedCookies(newCookies, cookies)
      completeCookieJar == CompleteCookieJar(me.storedCookies, updatedCookies)
  IN IF ~ResponseOk(response)
     THEN CatchFetchError(me, "HttpError",
            <<"Failed to fetch Lectio page: ", StatusLine(response.status)>>)
     ELSE IF HasRobotMarker(response.html)
     THEN CatchFetchError(me, "SessionInvalid",
            <<"Robot detection",
              " triggered - user is logged out or cookies are invalid">>)
     ELSE [me EXCEPT !.html = response.html,
                     !.updatedCookies = updatedCookies,
                     !.completeCookieJar = completeCookieJar,
                     !.pc = "save"]

\* fetchLectioWithCookies after the redirect loop, and the part of
\* fetchLectioForStudent up to the comparison of the two jars
FinishFetch(me, clock) ==
  LET response == me.finalResponse
      cookies == CookieValues(me.storedCookies)
      setCookieHeader == HeadersGet(response.setCookie)
      newCookies ==
        IF setCookieHeader # <<>>
        THEN parseAllCookies(setCookieHeader, clock)
        ELSE EmptyObject
      updatedCookies == UpdatedCookies(newCookies, cookies)
      completeCookieJar == CompleteCookieJar(me.storedCookies, updatedCookies)
  IN IF ~ResponseOk(response)
     THEN CatchFetchError(me, "HttpError",
            <<"Failed to fetch Lectio page: ", StatusLine(response.status)>>)
     ELSE IF HasRobotMarker(response.html)
     THEN CatchFetchError(me, "SessionInvalid",
            <<"Robot detection",
              " triggered - user is logged out or cookies are invalid">>)
     ELSE [me EXCEPT !.html = response.html,
                     !.updatedCookies = updatedCookies,
                     !.completeCookieJar = completeCookieJar,
                     !.pc = IF completeCookieJar # me.storedCookies
                            THEN "save" ELSE "parse"]

\* variant: the job goes to the load without validation
StartUnvalidated(i, studentId) ==
  /\ inv[i].pc = "idle"
  /\ inv' = [inv EXCEPT ![i] =
       IF studentId \notin DOMAIN lectioCreds
       THEN CatchFetchError([@ EXCEPT !.studentId = studentId], "NotFound",
              <<"No credentials found for student ", studentId>>)
       ELSE [@ EXCEPT !.studentId = studentId,
                      !.schoolId = lectioCreds[studentId].schoolId,
                      !.storedCookies = lectioCreds[studentId].cookies,
                      !.credsActive = lectioCreds[studentId].active,
                      !.cookieParts =
                        CookieParts(CookieValues(
                          lectioCreds[studentId].cookies)),
                      !.requests = 1,
                      !.pc = "request"]]
  /\ UNCHANGED <<lectioCreds, schedules, dayWrites, now, tzOffset, auxVars>>

\* POST: validation of the job, then the load of fetchLectioForStudent
Start(i, studentId) ==
  /\ inv[i].pc = "idle"
  /\ inv' = [inv EXCEPT ![i] =
       IF studentId = ""
       THEN [@ EXCEPT !.pc = "done", !.status = 400]
       ELSE IF studentId \notin DOMAIN lectioCreds
       THEN CatchFetchError([@ EXCEPT !.studentId = studentId], "NotFound",
              <<"No credentials found for student ", studentId>>)
       ELSE [@ EXCEPT !.studentId = studentId,
                      !.schoolId = lectioCreds[studentId].schoolId,
                      !.storedCookies = lectioCreds[studentId].cookies,
                      !.credsActive = lectioCreds[studentId].active,
                      !.cookieParts =
                        CookieParts(CookieValues(
                          lectioCreds[studentId].cookies)),
                      !.requests = 1,
                      !.pc = "request"]]
  /\ UNCHANGED <<lectioCreds, schedules, dayWrites, now, tzOffset, auxVars>>

\* the redirect loop is left by its condition or its break: the warning of
\* the reached cap is kept, the locals of the loop are gone
LeaveLoop(me) ==
  [me EXCEPT !.maxRedirectsReached = (me.redirectCount >= maxRedirects),
             !.redirectCount = 0, !.requests = 0]

\* variant: the cookies a redirect response sets are sent on the next hop
ReceiveKeepsCookies(i, response) ==
  /\ inv[i].pc = "request"
  /\ LET me == [inv[i] EXCEPT !.finalResponse = response]
     IN inv' = [inv EXCEPT ![i] =
          IF /\ response.status \in RedirectStatuses
             /\ me.redirectCount < maxRedirects
             /\ response.location
          THEN [me EXCEPT
                  !.redirectCount = @ + 1, !.requests = @ + 1,
                  !.cookieParts =
                    CookieValues(parseAllCookies(
                      HeadersGet(response.setCookie), now)) @@ @]
          ELSE FinishFetch(LeaveLoop(me), now)]
  /\ UNCHANGED <<lectioCreds, schedules, dayWrites, now, tzOffset, auxVars>>

\* the response to a request of fetchLectioWithCookies arrives: the while
\* loop follows a redirect with a Location below the cap by a further
\* request, otherwise the fetch ends.  requests counts the requests sent
Receive(i, response) ==
  /\ inv[i].pc = "request"
  /\ LET me == [inv[i] EXCEPT !.finalResponse = response]
     IN inv' = [inv EXCEPT ![i] =
          IF /\ response.status \in RedirectStatuses
             /\ me.redirectCount < maxRedirects
             /\ response.location
          THEN [me EXCEPT !.redirectCount = @ + 1, !.requests = @ + 1]
          ELSE FinishFetch(LeaveLoop(me), now)]
  /\ UNCHANGED <<lectioCreds, schedules, dayWrites, now, tzOffset, auxVars>>

\* variant: a transport failure also marks the credential inactive
NetworkErrorInvalidates(i) ==
  /\ inv[i].pc = "request"
  /\ inv' = [inv EXCEPT ![i] =
       CatchFetchError([@ EXCEPT !.redirectCount = 0, !.requests = 0],
                       "NetworkError", <<"fetch failed">>)]
  /\ lectioCreds' = [lectioCreds EXCEPT ![inv[i].studentId] =
                       UpdateDoc(@, [active |-> FALSE, updatedAt |-> now])]
  /\ UNCHANGED <<schedules, dayWrites, now, tzOffset, auxVars>>

\* fetch() rejects: a transport failure
NetworkError(i) ==
  /\ inv[i].pc = "request"
  /\ inv' = [inv EXCEPT ![i] =
       CatchFetchError([@ EXCEPT !.redirectCount = 0, !.requests = 0],
                       "NetworkError", <<"fetch failed">>)]
  /\ UNCHANGED <<lectioCreds, schedules, dayWrites, now, tzOffset, auxVars>>

\* variant: the updates object without the top-level autologinkey fields
CredentialUpdatesJarOnly(completeCookieJar, clock) ==
  [cookies |-> completeCookieJar, updatedAt |-> clock, active |-> TRUE]

\* the updates object fetchLectioForStudent writes
CredentialUpdates(completeCookieJar, clock) ==
  [cookies |-> completeCookieJar, updatedAt |-> clock, active |-> TRUE]
  @@ (IF "autologinkeyV2" \in DOMAIN completeCookieJar
      THEN ("autologinkey" :> completeCookieJar["autologinkeyV2"].value)
           @@ (IF "expiresAt" \in DOMAIN completeCookieJar["autologinkeyV2"]
               THEN "autologinkeyExpiresAt"
                      :> completeCookieJar["autologinkeyV2"].expiresAt
               ELSE EmptyObject)
      ELSE EmptyObject)

\* fetchLectioForStudent: the jar changed, the update of the credential
\* document succeeds or throws
SaveCookies(i, written) ==
  /\ inv[i].pc = "save"
  /\ IF written
     THEN /\ lectioCreds' =
               [lectioCreds EXCEPT ![inv[i].studentId] =
                  UpdateDoc(@, CredentialUpdates(inv[i].completeCookieJar,
                                                 now))]
          /\ inv' = [inv EXCEPT ![i] =
                       [@ EXCEPT !.credWrites = @ + 1, !.pc = "parse"]]
     ELSE /\ lectioCreds' = lectioCreds
          /\ inv' = [inv EXCEPT ![i] =
                       CatchFetchError([@ EXCEPT !.credWrites = @ + 1],
                                       "StoreError",
                                       <<"firestore unavailable">>)]
  /\ UNCHANGED <<schedules, dayWrites, now, tzOffset, auxVars>>

\* new Date(dateStr) of a YYYY-MM-DD string: midnight UTC of that date, in
\* days since 2024-01-01
DateOfString(dateStr) ==
  CASE dateStr = "2025-10-20" -> 658
    [] dateStr = "2025-10-21" -> 659
    [] OTHER -> Undefined

DaysInYear(year) ==
  IF year % 4 = 0 /\ (year % 100 # 0 \/ year % 400 = 0) THEN 366 ELSE 365

\* new Date(year, 0, 1), in days since 2024-01-01
RECURSIVE YearStart(_)
YearStart(year) ==
  IF year = 2024 THEN 0 ELSE YearStart(year - 1) + DaysInYear(year - 1)

\* getFullYear() of a day since 2024-01-01
RECURSIVE FullYear(_, _)
FullYear(day, year) ==
  IF day < YearStart(year + 1) THEN year ELSE FullYear(day, year + 1)

\* weekNumber.toString().padStart(2, "0")
PadStart2(n) == IF n < 10 THEN "0" \o ToString(n) ELSE ToString(n)

\* getWeekKey(date) for the instant `minutes` after 2024-01-01T00:00Z, on
\* a machine tz minutes east of UTC
getWeekKey(minutes, tz) ==
  LET local == minutes + tz
      day == local \div MinutesPerDay
      getDay == (day + 1) % 7
      dayNumber == (getDay + 6) % 7
      target == local - dayNumber * MinutesPerDay + 3 * MinutesPerDay
      year == FullYear(target \div MinutesPerDay, 2024)
      firstThursday == (YearStart(year) + 3) * MinutesPerDay
      weekNumber == (target - firstThursday + MinutesPerDay
                       + 7 * MinutesPerDay - 1) \div (7 * MinutesPerDay)
  IN PadStart2(weekNumber) \o ToString(year)

\* getWeekKeyFromDateString(dateStr)
getWeekKeyFromDateString(dateStr, tz) ==
  getWeekKey(DateOfString(dateStr) * MinutesPerDay, tz)

\* variant: the day is read first and its stored events are kept in front
ScheduleDayKeepsStored(me, date, events, clock) ==
  LET k == <<me.schoolId, me.studentId, date>>
      merged == (IF k \in DOMAIN schedules THEN schedules[k].events
                 ELSE <<>>) \o events
  IN [date |-> date, weekKey |-> getWeekKeyFromDateString(date, tzOffset),
      schoolId |-> me.schoolId, studentKey |-> me.studentId,
      updatedAt |-> clock, hash |-> Sha256(merged), events |-> merged]

\* the document of one day
ScheduleDay(me, date, events, clock) ==
  [date |-> date, weekKey |-> getWeekKeyFromDateString(date, tzOffset),
   schoolId |-> me.schoolId, studentKey |-> me.studentId,
   updatedAt |-> clock, hash |-> Sha256(events), events |-> events]

\* the write batch: one set() per date of eventsByDate
\* variant: one set() per date of the page, also for a date without events
WriteBatchEveryDate(me, eventsByDate, clock) ==
  [k \in {<<me.schoolId, me.studentId, me.html.cells[c].date>> :
            c \in 1..Len(me.html.cells)} |->
     ScheduleDay(me, k[3],
                 IF k[3] \in DOMAIN eventsByDate THEN eventsByDate[k[3]]
                 ELSE <<>>,
                 clock)]

WriteBatch(me, eventsByDate, clock) ==
  [k \in {<<me.schoolId, me.studentId, d>> : d \in DOMAIN eventsByDate} |->
     ScheduleDay(me, k[3], eventsByDate[k[3]], clock)]

\* POST: the html is parsed and the write batch is built
Parse(i) ==
  /\ inv[i].pc = "parse"
  /\ LET eventsByDate ==
           ParseCells(inv[i].html.cells, EmptyObject, now, tzOffset)
     IN inv' = [inv EXCEPT ![i] =
          [@ EXCEPT !.parsedAt = now,
                    !.eventsByDate = eventsByDate,
                    !.batch = WriteBatch(inv[i], eventsByDate, now),
                    !.pc = "commit"]]
  /\ UNCHANGED <<lectioCreds, schedules, dayWrites, now, tzOffset, auxVars>>

\* variant: the days are set one by one and only the first write lands
CommitBatchFirstOnly(stored, batch) ==
  IF DOMAIN batch = {} THEN stored
  ELSE LET first == CHOOSE k \in DOMAIN batch : TRUE
       IN (first :> batch[first]) @@ stored

\* the effect of a committed batch on the collection
CommitBatch(stored, batch) == batch @@ stored

CountWrites(writes, batch) ==
  [k \in (DOMAIN writes) \cup (DOMAIN batch) |->
     (IF k \in DOMAIN writes THEN writes[k] ELSE 0)
       + (IF k \in DOMAIN batch THEN 1 ELSE 0)]

\* POST: batch.commit() succeeds as a whole, or throws into the outer catch
Commit(i, committed) ==
  /\ inv[i].pc = "commit"
  /\ IF committed
     THEN /\ schedules' = CommitBatch(schedules, inv[i].batch)
          /\ dayWrites' = CountWrites(dayWrites, inv[i].batch)
          /\ inv' = [inv EXCEPT ![i] =
                       [@ EXCEPT !.pc = "done", !.status = 200]]
     ELSE /\ UNCHANGED <<schedules, dayWrites>>
          /\ inv' = [inv EXCEPT ![i] =
                       [@ EXCEPT !.pc = "done", !.status = 500,
                                 !.thrown = "PersistenceError"]]
  /\ UNCHANGED <<lectioCreds, now, tzOffset, auxVars>>

\* variant: the invalidation also clears the stored jar
markCredentialsInactiveClearsJar(doc, clock) ==
  UpdateDoc(doc, [active |-> FALSE, updatedAt |-> clock,
                  cookies |-> EmptyObject])

\* markCredentialsInactive(studentId)
markCredentialsInactive(doc, clock) ==
  UpdateDoc(doc, [active |-> FALSE, updatedAt |-> clock])

\* variant: a failed invalidation is rethrown and answered as a generic failure
MarkOutcomePropagates(me, written) ==
  IF written
  THEN [me EXCEPT !.markCalls = @ + 1, !.pc = "done", !.status = 403]
  ELSE [me EXCEPT !.markCalls = @ + 1, !.pc = "done", !.status = 500,
                  !.thrown = "StoreError"]

\* the invocation after the try around markCredentialsInactive: a failure of
\* the update is caught and logged, and the response of the catch block has
\* status 403 either way
MarkOutcome(me, written) ==
  [me EXCEPT !.markCalls = @ + 1, !.pc = "done", !.status = 403]

\* variant: the invalidation deletes the credential document
MarkInactiveDeletes(i, written) ==
  /\ inv[i].pc = "mark"
  /\ written => inv[i].studentId \in DOMAIN lectioCreds
  /\ lectioCreds' =
       IF written
       THEN [s \in (DOMAIN lectioCreds) \ {inv[i].studentId} |->
               lectioCreds[s]]
       ELSE lectioCreds
  /\ inv' = [inv EXCEPT ![i] =
       [@ EXCEPT !.markCalls = @ + 1, !.pc = "done", !.status = 403]]
  /\ UNCHANGED <<schedules, dayWrites, now, tzOffset, auxVars>>

\* POST: robot detection; the update succeeds, or throws and is logged
MarkInactive(i, written) ==
  /\ inv[i].pc = "mark"
  /\ written => inv[i].studentId \in DOMAIN lectioCreds
  /\ lectioCreds' =
       IF written
       THEN [lectioCreds EXCEPT ![inv[i].studentId] =
               markCredentialsInactive(@, now)]
       ELSE lectioCreds
  /\ inv' = [inv EXCEPT ![i] = MarkOutcome(@, written)]
  /\ UNCHANGED <<schedules, dayWrites, now, tzOffset, auxVars>>

\* time passes
Tick ==
  /\ now < MaxClock
  /\ now' = now + 1
  /\ UNCHANGED <<lectioCreds, schedules, dayWrites, tzOffset, inv, auxVars>>

Next ==
  \/ \E i \in Invocations, s \in JobStudentIds : Start(i, s)
  \/ \E i \in Invocations, r \in Responses : Receive(i, r)
  \/ \E i \in Invocations : NetworkError(i)
  \/ \E i \in Invocations, w \in BOOLEAN : SaveCookies(i, w)
  \/ \E i \in Invocations : Parse(i)
  \/ \E i \in Invocations, c \in BOOLEAN : Commit(i, c)
  \/ \E i \in Invocations, w \in BOOLEAN : MarkInactive(i, w)
  \/ Tick

Spec == Init /\ [][Next]_vars

TypeOK ==
  /\ now \in 0..MaxClock
  /\ \A i \in Invocations :
       /\ inv[i].pc \in {"idle", "request", "save", "parse", "commit",
                         "mark", "done"}
       /\ inv[i].status \in {0, 200, 400, 403, 500}

\* ------------------------------------------------------------ the fan-out
\* largest number of documents of an enumeration
MaxRecords == 250

\* variant: a chunk is flushed one job late
BATCH_SIZE_LIMIT_PlusOne == 100 + 1

BATCH_SIZE_LIMIT == 100

\* template literal `${n}`
NumberToString(n) == ToString(n)

\* a document of the enumeration: well formed, or without one of the ids
StudentDoc(i, kind) ==
  IF kind = "noStudentId" THEN [schoolId |-> "94"]
  ELSE IF kind = "noSchoolId" THEN [studentId |-> NumberToString(i)]
  ELSE IF kind = "emptySchoolId"
  THEN [studentId |-> NumberToString(i), schoolId |-> ""]
  ELSE [studentId |-> NumberToString(i), schoolId |-> "94"]

\* positions at which an enumeration of n documents may hold a malformed one
MalformedPositions(n) ==
  {p \in 1..n : p <= 2 \/ p % BATCH_SIZE_LIMIT <= 1 \/ p = n}

\* the kind of the malformed document at a position
MalformedKind(p) ==
  IF p % 3 = 0 THEN "emptySchoolId"
  ELSE IF p % 3 = 1 THEN "noSchoolId" ELSE "noStudentId"

\* the enumerations: n documents, at most two of them malformed
Snapshots ==
  UNION {{[i \in 1..n |-> StudentDoc(i, IF i \in bad THEN MalformedKind(i)
                                        ELSE "valid")] :
            bad \in {b \in SUBSET MalformedPositions(n) :
                       Cardinality(b) <= 2}} :
         n \in 0..MaxRecords}

\* !student?.field
Missing(student, field) ==
  field \notin DOMAIN student \/ student[field] = ""

\* JSON.stringify of an object with the keys studentId and schoolId
JSONStringify(obj) ==
  LET member(k) == IF k \in DOMAIN obj THEN <<k, ":", obj[k]>> ELSE <<>>
      first == member("studentId")
      second == member("schoolId")
  IN <<"{">> \o first
       \o (IF first # <<>> /\ second # <<>> THEN <<",">> ELSE <<>>)
       \o second \o <<"}">>

\* the job the scheduler pushes for a student
ScrapeJob(student) ==
  [body |-> JSONStringify([studentId |-> student.studentId,
                           schoolId |-> student.schoolId]),
   queueName |-> "lectioUserScrape",
   url |-> "https://api.joinping.dk/lectio/student/scrape",
   retryDelay |-> "10000", retries |-> 2]

\* variant: a malformed document is skipped without being counted
SkipUncounted(me) == me

\* skippedJobs++
Skip(me) == [me EXCEPT !.skippedJobs = @ + 1]

\* the for loop over snapshot.docs from document i, up to the next await
\* (a full batch, or the remainder after the loop) or to the end
RECURSIVE Enumerate(_, _, _)
Enumerate(docs, i, me) ==
  IF i > Len(docs)
  THEN [me EXCEPT !.next = i,
                  !.pc = IF Len(me.batch) > 0 THEN "flushFinal"
                         ELSE "respond",
                  !.batchCount = IF Len(me.batch) > 0 THEN @ + 1 ELSE @]
  ELSE IF Missing(docs[i], "studentId") \/ Missing(docs[i], "schoolId")
  THEN Enumerate(docs, i + 1, Skip(me))
  ELSE LET batch == Append(me.batch, ScrapeJob(docs[i]))
       IN IF Len(batch) >= BATCH_SIZE_LIMIT
          THEN [me EXCEPT !.batch = batch, !.next = i + 1, !.pc = "flush",
                          !.batchCount = @ + 1]
          ELSE Enumerate(docs, i + 1, [me EXCEPT !.batch = batch])

\* variant: Math.floor(a / b)
CeilAsFloor(a, b) == a \div b

\* Math.ceil(a / b)
Ceil(a, b) == (a + b - 1) \div b

NoStudentsResponse ==
  [status |-> 200, text |-> <<"No students found to schedule.">>]

\* the Response of a completed scheduling
SuccessResponse(totalJobs, batches) ==
  [status |-> 200,
   text |-> <<"Successfully scheduled ", NumberToString(totalJobs),
              " scraping jobs across ", NumberToString(batches),
              " batches.">>]

\* variant: the catch block answers with the default status
FailureResponseAccepted(message) ==
  [status |-> 200, text |-> <<"Failed to schedule scraping jobs: ", message>>]

\* the Response of the catch block
FailureResponse(message) ==
  [status |-> 500, text |-> <<"Failed to schedule scraping jobs: ", message>>]

\* messages of the errors client.batchJSON rejects with
PublishErrors == {"fetch failed", "quota exceeded"}

\* the scheduler returns its Response after the last flush
Respond(me) ==
  [me EXCEPT !.pc = "done",
             !.response =
               SuccessResponse(me.totalJobs,
                               Ceil(me.totalJobs, BATCH_SIZE_LIMIT))]

\* the scheduler runs on to its next await or to its Response
RunOn(me) ==
  LET at == Enumerate(snapshot, me.next, me)
  IN IF at.pc = "respond" THEN Respond(at) ELSE at

\* the call the scheduler is waiting for, if any
Awaited(me) ==
  IF me.pc \in {"flush", "flushFinal"}
  THEN (me.batchCount :> me.batch) ELSE EmptyObject

\* POST of the scheduler: the enumeration, up to the first publish
Schedule ==
  /\ scheduler.pc = "idle"
  /\ LET me == [scheduler EXCEPT !.route = "sequential"]
         at == IF Len(snapshot) = 0
               THEN [me EXCEPT !.pc = "done",
                               !.response = NoStudentsResponse]
               ELSE RunOn(me)
     IN /\ scheduler' = at
        /\ qstash' = [qstash EXCEPT !.inFlight = Awaited(at)]
  /\ UNCHANGED <<scrapeVars, snapshot, cookieCall, parseCall, weekCall>>

\* client.batchJSON(batch) resolves: the queue holds the chunk and the
\* scheduler runs on
PublishResolves ==
  /\ scheduler.pc \in {"flush", "flushFinal"}
  /\ LET me == [scheduler EXCEPT !.totalJobs = @ + Len(scheduler.batch)]
         at == IF scheduler.pc = "flush"
               THEN RunOn([me EXCEPT !.batch = <<>>])
               ELSE Respond(me)
     IN /\ scheduler' = at
        /\ qstash' = [inFlight |-> Awaited(at),
                      received |-> Append(qstash.received, scheduler.batch)]
  /\ UNCHANGED <<scrapeVars, snapshot, cookieCall, parseCall, weekCall>>

\* variant: a rejected publish is passed over and the scheduler runs on
PublishRejectsRunsOn(message) ==
  /\ scheduler.pc \in {"flush", "flushFinal"}
  /\ LET at == IF scheduler.pc = "flush"
               THEN RunOn([scheduler EXCEPT !.batch = <<>>])
               ELSE Respond(scheduler)
     IN /\ scheduler' = at
        /\ qstash' = [qstash EXCEPT !.inFlight = Awaited(at)]
  /\ UNCHANGED <<scrapeVars, snapshot, cookieCall, parseCall, weekCall>>

\* client.batchJSON(batch) rejects: the catch block answers
PublishRejects(message) ==
  /\ scheduler.pc \in {"flush", "flushFinal"}
  /\ scheduler' = [scheduler EXCEPT !.pc = "done",
                                    !.response = FailureResponse(message)]
  /\ qstash' = [qstash EXCEPT !.inFlight = EmptyObject]
  /\ UNCHANGED <<scrapeVars, snapshot, cookieCall, parseCall, weekCall>>

\* the job the parallel scheduler pushes for a student
StudentJob(student) ==
  [body |-> JSONStringify(student), queueName |-> "lectioUserScrape",
   url |-> "https://api.joinping.dk/lectio/student/scrape"]

Min(a, b) == IF a < b THEN a ELSE b

\* batch.slice(i, i + BATCH_SIZE_LIMIT) for i = 0, BATCH_SIZE_LIMIT, ...
Chunks(batch) ==
  [c \in 1..Ceil(Len(batch), BATCH_SIZE_LIMIT) |->
     SubSeq(batch, (c - 1) * BATCH_SIZE_LIMIT + 1,
            Min(c * BATCH_SIZE_LIMIT, Len(batch)))]

\* obj without the key k
Without(obj, k) == [n \in (DOMAIN obj) \ {k} |-> obj[n]]

\* POST of the parallel scheduler: every student becomes a job and every
\* chunk is published at once
ScheduleParallel ==
  /\ scheduler.pc = "idle"
  /\ LET batch == [i \in 1..Len(snapshot) |-> StudentJob(snapshot[i])]
         chunks == Chunks(batch)
         me == [scheduler EXCEPT !.route = "parallel", !.batch = batch]
     IN IF Len(batch) = 0
        THEN /\ scheduler' = [me EXCEPT !.pc = "done",
                                        !.response = NoStudentsResponse]
             /\ qstash' = qstash
        ELSE /\ scheduler' = [me EXCEPT !.pc = "parallel",
                                        !.chunks = chunks]
             /\ qstash' = [qstash EXCEPT !.inFlight =
                             [c \in 1..Len(chunks) |-> chunks[c]]]
  /\ UNCHANGED <<scrapeVars, snapshot, cookieCall, parseCall, weekCall>>

\* one of the parallel calls resolves; Promise.all resolves with the last
ChunkResolves(c) ==
  /\ scheduler.route = "parallel"
  /\ c \in DOMAIN qstash.inFlight
  /\ qstash' = [inFlight |-> Without(qstash.inFlight, c),
                received |-> Append(qstash.received, qstash.inFlight[c])]
  /\ scheduler' =
       IF scheduler.pc = "parallel" /\ DOMAIN qstash.inFlight = {c}
       THEN [scheduler EXCEPT
               !.pc = "done",
               !.response = SuccessResponse(Len(scheduler.batch),
                                            Len(scheduler.chunks))]
       ELSE scheduler
  /\ UNCHANGED <<scrapeVars, snapshot, cookieCall, parseCall, weekCall>>

\* one of the parallel calls rejects; Promise.all rejects with the first
ChunkRejects(c, message) ==
  /\ scheduler.route = "parallel"
  /\ c \in DOMAIN qstash.inFlight
  /\ qstash' = [qstash EXCEPT !.inFlight = Without(@, c)]
  /\ scheduler' =
       IF scheduler.pc = "parallel"
       THEN [scheduler EXCEPT !.pc = "done",
                              !.response = FailureResponse(message)]
       ELSE scheduler
  /\ UNCHANGED <<scrapeVars, snapshot, cookieCall, parseCall, weekCall>>

FanoutInit ==
  /\ lectioCreds = ("7272" :> InitialCredential)
  /\ schedules = EmptyObject
  /\ dayWrites = EmptyObject
  /\ now = 0
  /\ tzOffset = 0
  /\ inv = [i \in Invocations |-> IdleInvocation]
  /\ snapshot \in Snapshots
  /\ scheduler = IdleScheduler
  /\ qstash = EmptyQueue
  /\ cookieCall = NoCookieCall
  /\ parseCall = NoParseCall
  /\ weekCall = NoWeekCall

FanoutNext ==
  \/ Schedule
  \/ PublishResolves
  \/ \E m \in PublishErrors : PublishRejects(m)

FanoutSpec == FanoutInit /\ [][FanoutNext]_vars

ParallelFanoutNext ==
  \/ ScheduleParallel
  \/ \E c \in DOMAIN qstash.inFlight : ChunkResolves(c)
  \/ \E c \in DOMAIN qstash.inFlight, m \in PublishErrors :
       ChunkRejects(c, m)

ParallelFanoutSpec == FanoutInit /\ [][ParallelFanoutNext]_vars

\* ------------------------------------------- parseAllCookies on its own
\* largest number of cookie definitions of one header
MaxDefinitions == 3

\* a definition whose Expires date is its last attribute
SetKeyExpires ==
  <<"autologinkeyV2", "=", "k2", ";", " ", "expires", "=", "Wed", ",", " ",
    "21 Oct 2026 07:28:00 GMT">>

\* a definition with Max-Age and Path
SetLangMaxAge ==
  <<"lang", "=", "da", ";", " ", "max-age", "=", "2", ";", " ", "path", "=",
    "/">>

\* the definitions parsed; the last has Max-Age and, after it, an Expires
\* date
CookieDefinitions ==
  {SetKey, SetSession, SetKeyExpires, SetKeyExpiresPath, SetLangMaxAge,
   <<"lang", "=", "da", ";", " ", "max-age", "=", "2", ";", " ", "expires",
     "=", "Thu", ",", " ", "22 Oct 2026 07:28:00 GMT">>}

CookieInit ==
  /\ lectioCreds = ("7272" :> InitialCredential)
  /\ schedules = EmptyObject
  /\ dayWrites = EmptyObject
  /\ now \in 0..MaxClock
  /\ tzOffset = 0
  /\ inv = [i \in Invocations |-> IdleInvocation]
  /\ snapshot = <<>>
  /\ scheduler = IdleScheduler
  /\ qstash = EmptyQueue
  /\ \E n \in 0..MaxDefinitions :
       \E definitions \in [1..n -> CookieDefinitions] :
         cookieCall = [NoCookieCall EXCEPT !.definitions = definitions]
  /\ parseCall = NoParseCall
  /\ weekCall = NoWeekCall

\* parseAllCookies(headers.get("set-cookie")) returns
ParseSetCookie ==
  /\ ~cookieCall.returned
  /\ cookieCall' =
       [cookieCall EXCEPT
          !.returned = TRUE,
          !.cookies = parseAllCookies(HeadersGet(cookieCall.definitions),
                                      now)]
  /\ UNCHANGED <<scrapeVars, fanoutVars, parseCall, weekCall>>

CookieNext == ParseSetCookie

CookieSpec == CookieInit /\ [][CookieNext]_vars

\* ------------------------------------------- the page parser on its own
\* largest number of tiles of the first day of a page
MaxTiles == 2

\* offsets of the machine's time zone: Honolulu, UTC, Copenhagen in summer
TimeZones == {-600, 0, 120}

TileMoved ==
  [brikid |-> <<"ABS", "104">>,
   tooltip |-> << <<"Ændret!">>,
                  <<"20/10-2025", " ", "08:10", " til ", "09:50">>,
                  <<"Hold:", " ", "1a MA">>,
                  <<"Lokale:", " ", "14">> >>]

\* a tile of an all-day activity
TileAllDay ==
  [brikid |-> <<"ABS", "105">>,
   tooltip |-> << <<"20/10-2025", " ", "Hele dagen">>,
                  <<"Hold:", " ", "1a MA">> >>]

\* a tile whose end is not written as two digits, a colon and two digits
TileNoEnd ==
  [brikid |-> <<"ABS", "106">>,
   tooltip |-> << <<"20/10-2025", " ", "08:10", " til ", "sent">>,
                  <<"Hold:", " ", "1a MA">> >>]

\* a tile without a time line
TileNoTime ==
  [brikid |-> <<"ABS", "107">>,
   tooltip |-> << <<"Hold:", " ", "1a MA">>,
                  <<"Lokale:", " ", "12">> >>]

\* a tile with a title line and a further line without a label
TileTitled ==
  [brikid |-> <<"ABS", "108">>,
   tooltip |-> << <<"20/10-2025", " ", "08:10", " til ", "09:50">>,
                  <<"Matematik">>,
                  <<"Hold:", " ", "1a MA">>,
                  <<"Vikar">> >>]

\* a changed tile whose line after the status line has no label
TileTitleFirst ==
  [brikid |-> <<"ABS", "109">>,
   tooltip |-> << <<"Ændret!">>,
                  <<"Terminsprøve">>,
                  <<"20/10-2025", " ", "08:10", " til ", "09:50">>,
                  <<"Hold:", " ", "1a MA">> >>]

\* a tile with a note of two lines and homework, blank lines between
TileNote ==
  [brikid |-> <<"ABS", "110">>,
   tooltip |-> << <<"20/10-2025", " ", "08:10", " til ", "09:50">>,
                  <<"Hold:", " ", "1a MA">>,
                  <<"Note:", " ", "Husk bog">>,
                  <<"og lommeregner">>,
                  <<>>,
                  <<"Lektier:", " ", "Læs s. 5">>,
                  <<>>,
                  <<"Opgave 3">> >>]

\* a tile whose note names another time range
TileNoteTimes ==
  [brikid |-> <<"ABS", "111">>,
   tooltip |-> << <<"20/10-2025", " ", "08:10", " til ", "09:50">>,
                  <<"Hold:", " ", "1a MA">>,
                  <<"Note:", " ", "Flyttet fra">>,
                  <<"20/10-2025", " ", "09:50", " til ", "23:30">> >>]

\* a tile with a title and without a Hold: line
TileNoHold ==
  [brikid |-> <<"ABS", "112">>,
   tooltip |-> << <<"20/10-2025", " ", "08:10", " til ", "09:50">>,
                  <<"Matematik">>,
                  <<"Lokale:", " ", "12">> >>]

\* a tile whose Hold: line is empty, without a title
TileEmptyHold ==
  [brikid |-> <<"ABS", "113">>,
   tooltip |-> << <<"20/10-2025", " ", "08:10", " til ", "09:50">>,
                  <<"Hold:", " ">>,
                  <<"Lokale:", " ", "12">> >>]

Tiles ==
  {TileOk, TileCancelled, TileNextDay, TileMoved, TileAllDay, TileNoEnd,
   TileNoTime, TileTitled, TileTitleFirst, TileNote, TileNoteTimes,
   TileNoHold, TileEmptyHold}

\* the sequences of at most n different tiles
TileSeqs(n) ==
  UNION {{t \in [1..k -> Tiles] :
            \A a \in 1..k, b \in 1..k : a # b => t[a] # t[b]} :
         k \in 0..n}

\* the td[data-date] cells of a page with two days
PageCells ==
  {<< [date |-> "2025-10-20", tiles |-> first],
      [date |-> "2025-10-21", tiles |-> second] >> :
     first \in TileSeqs(MaxTiles), second \in TileSeqs(1)}

RECURSIVE SumOfLengths(_, _)
SumOfLengths(eventsByDate, dates) ==
  IF dates = {} THEN 0
  ELSE LET d == CHOOSE x \in dates : TRUE
       IN Len(eventsByDate[d]) + SumOfLengths(eventsByDate, dates \ {d})

\* the counts the route keeps about a parse: totalEvents and the number
\* of days
ParseCounters(eventsByDate) ==
  [totalEvents |-> SumOfLengths(eventsByDate, DOMAIN eventsByDate),
   days |-> Cardinality(DOMAIN eventsByDate)]

ParserInit ==
  /\ lectioCreds = ("7272" :> InitialCredential)
  /\ schedules = EmptyObject
  /\ dayWrites = EmptyObject
  /\ now \in 0..MaxClock
  /\ tzOffset \in TimeZones
  /\ inv = [i \in Invocations |-> IdleInvocation]
  /\ snapshot = <<>>
  /\ scheduler = IdleScheduler
  /\ qstash = EmptyQueue
  /\ cookieCall = NoCookieCall
  /\ \E cells \in PageCells : parseCall = [NoParseCall EXCEPT !.cells = cells]
  /\ weekCall = NoWeekCall

\* POST: the loop over the cells and tiles of the page runs to its end
ParsePage ==
  /\ ~parseCall.returned
  /\ LET eventsByDate ==
           ParseCells(parseCall.cells, EmptyObject, now, tzOffset)
     IN parseCall' = [parseCall EXCEPT
                        !.returned = TRUE,
                        !.eventsByDate = eventsByDate,
                        !.counters = ParseCounters(eventsByDate)]
  /\ UNCHANGED <<scrapeVars, fanoutVars, cookieCall, weekCall>>

ParserNext == ParsePage

ParserSpec == ParserInit /\ [][ParserNext]_vars

\* ---------------------------------------------- getWeekKey on its own
\* last day of the dates given to getWeekKey, in days since 2024-01-01
MaxWeekDay == 760

\* the week key the comment of getWeekKey describes, for a calendar day in
\* days since 2024-01-01 (a Monday): the ISO week is the week, Monday
\* first, of the day's Thursday, numbered from the first Thursday of the
\* year that Thursday lies in
IsoWeekKey(day) ==
  LET thursday == day - (day % 7) + 3
      year == FullYear(thursday, 2024)
      weekNumber == (thursday - YearStart(year)) \div 7 + 1
  IN PadStart2(weekNumber) \o ToString(year)

WeekInit ==
  /\ lectioCreds = ("7272" :> InitialCredential)
  /\ schedules = EmptyObject
  /\ dayWrites = EmptyObject
  /\ now = 0
  /\ tzOffset \in TimeZones
  /\ inv = [i \in Invocations |-> IdleInvocation]
  /\ snapshot = <<>>
  /\ scheduler = IdleScheduler
  /\ qstash = EmptyQueue
  /\ cookieCall = NoCookieCall
  /\ parseCall = NoParseCall
  \* the dates given to getWeekKey are at midnight and at noon, UTC
  /\ \E day \in 7..MaxWeekDay, minute \in {0, 720} :
       weekCall = [NoWeekCall EXCEPT !.date = day * MinutesPerDay + minute]

\* getWeekKey(date) returns
WeekKeyReturns ==
  /\ ~weekCall.returned
  /\ weekCall' = [weekCall EXCEPT !.returned = TRUE,
                                  !.key = getWeekKey(weekCall.date, tzOffset)]
  /\ UNCHANGED <<scrapeVars, fanoutVars, cookieCall, parseCall>>

WeekNext == WeekKeyReturns

WeekSpec == WeekInit /\ [][WeekNext]_vars

\* ---------------------------------------------------------- properties

\* C1: two invocations for the same student that loaded the same stored
\* jar, were given rotations of different cookie names and both saved:
\* the stored jar holds both rotated values (a save merges by name).
C1_ConcurrentRotationsKept ==
  \A i \in Invocations, j \in Invocations :
    (/\ i # j
     /\ inv[i].studentId = inv[j].studentId
     /\ inv[i].pc \in {"parse", "commit", "done"}
     /\ inv[j].pc \in {"parse", "commit", "done"}
     /\ inv[i].credWrites = 1 /\ inv[i].thrown # "StoreError"
     /\ inv[j].credWrites = 1 /\ inv[j].thrown # "StoreError"
     /\ inv[i].storedCookies = inv[j].storedCookies
     /\ (DOMAIN inv[i].updatedCookies) \cap (DOMAIN inv[j].updatedCookies)
          = {})
    => \A n \in DOMAIN inv[i].updatedCookies :
         /\ n \in DOMAIN lectioCreds[inv[i].studentId].cookies
         /\ lectioCreds[inv[i].studentId].cookies[n]
              = inv[i].updatedCookies[n]

\* C2: a commit writes a day document once when no document with that hash
\* is stored, and does not write it when the stored hash is identical.
C2_IdenticalDaySkipsWrite ==
  [][\A i \in Invocations :
       (inv[i].pc = "commit" /\ inv'[i].pc = "done"
          /\ inv'[i].status = 200)
       => \A k \in DOMAIN inv[i].batch :
            LET before == IF k \in DOMAIN dayWrites THEN dayWrites[k] ELSE 0
            IN /\ k \in DOMAIN dayWrites'
               /\ dayWrites'[k] =
                    IF k \in DOMAIN schedules
                       /\ schedules[k].hash = inv[i].batch[k].hash
                    THEN before ELSE before + 1]_vars

\* C3: two invocations that parsed the same html, at whatever instants,
\* computed the same event lists and the same hash for every date.
C3_ParseDeterministic ==
  \A i \in Invocations, j \in Invocations :
    (/\ inv[i].parsedAt # Undefined
     /\ inv[j].parsedAt # Undefined
     /\ inv[i].studentId = inv[j].studentId
     /\ inv[i].html = inv[j].html)
    => /\ inv[i].eventsByDate = inv[j].eventsByDate
       /\ \A k \in DOMAIN inv[i].batch :
            /\ k \in DOMAIN inv[j].batch
            /\ inv[i].batch[k].hash = inv[j].batch[k].hash

\* C4: a fetch whose final response carries a robot/verification marker
\* fails with SessionInvalid, whatever the HTTP status of that response.
C4_MarkerIsSessionInvalid ==
  \A i \in Invocations :
    (/\ inv[i].pc \notin {"idle", "request"}
     /\ inv[i].thrown # "NetworkError"
     /\ inv[i].finalResponse # NoResponse
     /\ HasRobotMarker(inv[i].finalResponse.html))
    => inv[i].thrown = "SessionInvalid"

\* C5: an invocation calls markCredentialsInactive at most once, and once
\* it is done it has called it exactly when its fetch failed with
\* SessionInvalid; that failure, and no other, is answered with status 403.
C5_MarkedInactiveIffSessionInvalid ==
  \A i \in Invocations :
    /\ inv[i].markCalls <= 1
    /\ inv[i].pc # "done" => inv[i].markCalls = 0
    /\ inv[i].pc = "done" =>
         /\ inv[i].markCalls = 1 <=> inv[i].thrown = "SessionInvalid"
         /\ inv[i].status = 403 <=> inv[i].thrown = "SessionInvalid"

\* C5 witness: one invocation ended by a robot detection and marked the
\* credential inactive, another one ended by an HTTP error and did not.
C5_Witness ==
  \E i \in Invocations, j \in Invocations :
    /\ inv[i].pc = "done" /\ inv[i].thrown = "SessionInvalid"
    /\ inv[i].markCalls = 1 /\ inv[i].status = 403
    /\ lectioCreds[inv[i].studentId].active = FALSE
    /\ inv[j].pc = "done" /\ inv[j].thrown = "HttpError"
    /\ inv[j].markCalls = 0 /\ inv[j].status = 500

\* C6: the step of markCredentialsInactive leaves every credential
\* document as it was except for active, which becomes false, and
\* updatedAt, of the student's own document.
C6_MarkInactiveFrame ==
  [][\A i \in Invocations :
       (inv[i].pc = "mark" /\ inv'[i].pc = "done")
       => /\ DOMAIN lectioCreds' = DOMAIN lectioCreds
          /\ \A s \in DOMAIN lectioCreds :
               /\ DOMAIN lectioCreds'[s] = DOMAIN lectioCreds[s]
               /\ \A f \in (DOMAIN lectioCreds[s]) \ {"active", "updatedAt"} :
                    lectioCreds'[s][f] = lectioCreds[s][f]
               /\ lectioCreds'[s] # lectioCreds[s] =>
                    /\ s = inv[i].studentId
                    /\ lectioCreds'[s].active = FALSE]_vars

\* C6 witness: the credential was marked inactive after a save had rotated
\* the key, and the rotated jar and the mirrored token are still stored.
C6_Witness ==
  \E i \in Invocations :
    /\ inv[i].pc = "done" /\ inv[i].markCalls = 1
    /\ lectioCreds[inv[i].studentId].active = FALSE
    /\ lectioCreds[inv[i].studentId].cookies["autologinkeyV2"].value = "k2"
    /\ lectioCreds[inv[i].studentId].autologinkey = "k2"

\* C7: a fetch that reached the cap of 5 hops while the remote kept
\* redirecting returns the last response instead of failing.
C7_CapSurfacesLastResponse ==
  \A i \in Invocations :
    (/\ inv[i].pc \notin {"idle", "request"}
     /\ inv[i].maxRedirectsReached
     /\ inv[i].finalResponse.status \in RedirectStatuses)
    => inv[i].thrown # "HttpError"

\* C8: every step of a fetch in progress either ends the fetch or follows
\* one redirect that carries a Location by one more request; the hops never
\* exceed 5 and the requests never exceed 6.
C8_RedirectsBounded ==
  [][\A i \in Invocations :
       (inv[i].pc = "request" /\ inv'[i] # inv[i])
       => /\ inv[i].requests <= 6
          /\ inv[i].redirectCount <= 5
          /\ inv'[i].pc = "request" =>
               /\ inv'[i].requests = inv[i].requests + 1
               /\ inv'[i].requests <= 6
               /\ inv'[i].redirectCount = inv[i].redirectCount + 1
               /\ inv'[i].redirectCount <= 5
               /\ inv'[i].finalResponse.status \in RedirectStatuses
               /\ inv'[i].finalResponse.location]_vars

\* C8 witness: one fetch has sent its sixth request after five hops, and
\* another one was ended by a redirect without Location.
C8_Witness ==
  \E i \in Invocations, j \in Invocations :
    /\ inv[i].pc = "request" /\ inv[i].requests = 6
    /\ inv[i].redirectCount = 5
    /\ inv[j].pc = "done" /\ inv[j].finalResponse.status = 302
    /\ ~inv[j].finalResponse.location /\ ~inv[j].maxRedirectsReached

\* C9: after a successful fetch updatedCookies holds exactly the names the
\* final response set to a value other than the one sent (or that were not
\* sent), and the credential document is written exactly when
\* updatedCookies is not empty.
C9_UpdatedCookiesExact ==
  \A i \in Invocations :
    (\/ inv[i].pc \in {"save", "parse", "commit"}
     \/ inv[i].pc = "done" /\ inv[i].status = 200
     \/ inv[i].pc = "done"
          /\ inv[i].thrown \in {"StoreError", "PersistenceError"})
    => LET lines == inv[i].finalResponse.setCookie
           sent == CookieValues(inv[i].storedCookies)
           last(n) == CHOOSE k \in 1..Len(lines) :
                        /\ CookieName(lines[k]) = n
                        /\ \A m \in (k + 1)..Len(lines) :
                             CookieName(lines[m]) # n
           changed == {n \in {CookieName(lines[k]) : k \in 1..Len(lines)} :
                         \/ n \notin DOMAIN sent
                         \/ CookieValue(lines[last(n)]) # sent[n]}
       IN /\ DOMAIN inv[i].updatedCookies = changed
          /\ inv[i].pc # "save" =>
               (inv[i].credWrites = 1 <=> DOMAIN inv[i].updatedCookies # {})

\* C10: the commit of an invocation either stores every day of its batch
\* and nothing else and answers 200, or changes no day document and
\* answers 500; no other step changes a day document.
C10_BatchAtomic ==
  [][/\ \A i \in Invocations :
          (inv[i].pc = "commit" /\ inv'[i].pc = "done")
          => \/ /\ inv'[i].status = 200
                /\ DOMAIN schedules' =
                     (DOMAIN schedules) \cup (DOMAIN inv[i].batch)
                /\ \A k \in DOMAIN schedules' :
                     schedules'[k] = IF k \in DOMAIN inv[i].batch
                                     THEN inv[i].batch[k] ELSE schedules[k]
             \/ /\ inv'[i].status = 500
                /\ schedules' = schedules
     /\ schedules' # schedules =>
          \E i \in Invocations : inv[i].pc = "commit" /\ inv'[i].pc = "done"
    ]_vars

\* C10 witness: one invocation's commit of a batch of two days failed and
\* it answered 500, the other one's commit stored both of its days.
C10_Witness ==
  \E i \in Invocations, j \in Invocations :
    /\ inv[i].pc = "done" /\ inv[i].thrown = "PersistenceError"
    /\ inv[i].status = 500 /\ Cardinality(DOMAIN inv[i].batch) = 2
    /\ inv[j].pc = "done" /\ inv[j].status = 200
    /\ Cardinality(DOMAIN inv[j].batch) = 2
    /\ \A k \in DOMAIN inv[j].batch : schedules[k] = inv[j].batch[k]
    /\ inv[i].batch # inv[j].batch

\* C11: a successful commit leaves, for every date of the invocation's
\* parse, a day document made of exactly the seven fields of that parse: its
\* events are the parsed list and its hash the hash of that list, whatever
\* was stored under that (schoolId, studentId, date) before.
C11_DayReplacedWholesale ==
  [][\A i \in Invocations :
       (inv[i].pc = "commit" /\ inv'[i].pc = "done"
          /\ inv'[i].status = 200)
       => \A d \in DOMAIN inv[i].eventsByDate :
            LET k == <<inv[i].schoolId, inv[i].studentId, d>>
            IN /\ k \in DOMAIN schedules'
               /\ DOMAIN schedules'[k] =
                    {"date", "weekKey", "schoolId", "studentKey",
                     "updatedAt", "hash", "events"}
               /\ schedules'[k].events = inv[i].eventsByDate[d]
               /\ schedules'[k].hash = Sha256(inv[i].eventsByDate[d])
               /\ schedules'[k].date = d
               /\ schedules'[k].updatedAt = inv[i].parsedAt]_vars

\* C11 witness: a day that held the events of one invocation's parse was
\* written again by another invocation with a different parse of that
\* date, and holds the events of the latter only.
C11_Witness ==
  \E i \in Invocations, j \in Invocations :
    \E d \in (DOMAIN inv[i].eventsByDate) \cap (DOMAIN inv[j].eventsByDate) :
      LET k == <<inv[i].schoolId, inv[i].studentId, d>>
      IN /\ inv[i].pc = "done" /\ inv[i].status = 200
         /\ inv[j].pc = "done" /\ inv[j].status = 200
         /\ inv[i].studentId = inv[j].studentId
         /\ inv[i].eventsByDate[d] # inv[j].eventsByDate[d]
         /\ inv[j].eventsByDate[d] # <<>>
         /\ k \in DOMAIN dayWrites /\ dayWrites[k] = 2
         /\ schedules[k].events = inv[i].eventsByDate[d]

\* the positions of the well-formed documents of an enumeration
ValidPositions(docs) ==
  {i \in 1..Len(docs) :
     /\ "studentId" \in DOMAIN docs[i] /\ docs[i].studentId # ""
     /\ "schoolId" \in DOMAIN docs[i] /\ docs[i].schoolId # ""}

\* C12: a fan-out that ended with success over N well-formed documents
\* made (N + 99) div 100 publish calls, each but the last of 100 jobs and
\* the last of the remainder, and its answer reports the total N.
C12_ChunksOfHundred ==
  (scheduler.pc = "done" /\ scheduler.response.status = 200)
  => LET N == Cardinality(ValidPositions(snapshot))
         calls == qstash.received
     IN /\ Len(calls) = (N + 99) \div 100
        /\ \A c \in 1..(Len(calls) - 1) : Len(calls[c]) = 100
        /\ Len(calls) > 0 =>
             Len(calls[Len(calls)]) = N - 100 * (Len(calls) - 1)
        /\ Len(snapshot) > 0 =>
             /\ scheduler.response.text[1] = "Successfully scheduled "
             /\ scheduler.response.text[2] = ToString(N)

\* C12 witness: 250 well-formed documents were published by three calls
\* of 100, 100 and 50 jobs and the answer reports 250.
C12_Witness ==
  /\ scheduler.pc = "done" /\ scheduler.response.status = 200
  /\ Len(snapshot) = 250
  /\ Cardinality(ValidPositions(snapshot)) = 250
  /\ Len(qstash.received) = 3
  /\ Len(qstash.received[1]) = 100 /\ Len(qstash.received[2]) = 100
  /\ Len(qstash.received[3]) = 50
  /\ scheduler.response.text[2] = "250"

\* C13: the sequential scheduler has counted as skipped every malformed
\* document it has passed, no job it holds or has published comes from a
\* malformed document, and once it has answered with success every
\* well-formed document is in a published chunk and the reported total is
\* the number of the well-formed documents.
C13_MalformedSkipped ==
  scheduler.route = "sequential" =>
    LET valid == ValidPositions(snapshot)
        passed == 1..(scheduler.next - 1)
        bodies(chunk) == {chunk[n].body : n \in 1..Len(chunk)}
        published == UNION {bodies(qstash.received[c]) :
                              c \in 1..Len(qstash.received)}
        wellFormed == {<<"{", "studentId", ":", snapshot[i].studentId, ",",
                         "schoolId", ":", snapshot[i].schoolId, "}">> :
                         i \in valid}
    IN /\ scheduler.skippedJobs = Cardinality(passed \ valid)
       /\ published \cup bodies(scheduler.batch) \subseteq wellFormed
       /\ (scheduler.pc = "done" /\ scheduler.response.status = 200
             /\ Len(snapshot) > 0) =>
            /\ wellFormed \subseteq published
            /\ scheduler.response.text[2] = ToString(Cardinality(valid))

\* C13 witness: an enumeration of 250 documents whose first one has no
\* schoolId and whose 201st has an empty one ended with success: two
\* documents were skipped and the 248 others were published.
C13_Witness ==
  /\ scheduler.pc = "done" /\ scheduler.response.status = 200
  /\ Len(snapshot) = 250
  /\ "schoolId" \notin DOMAIN snapshot[1]
  /\ "schoolId" \in DOMAIN snapshot[201] /\ snapshot[201].schoolId = ""
  /\ scheduler.skippedJobs = 2
  /\ scheduler.response.text[2] = "248"
  /\ Len(qstash.received) = 3 /\ Len(qstash.received[3]) = 48

\* C14: the answer of a fan-out whose publish failed after a chunk had
\* been received by the queue differs from the answer of a success and
\* from the answer of a fan-out whose first publish failed.
C14_PartialOutcomeDistinct ==
  (/\ scheduler.route = "sequential" /\ scheduler.pc = "done"
   /\ scheduler.response.status # 200
   /\ Len(qstash.received) > 0)
  => /\ scheduler.response.text[1] # "Successfully scheduled "
     /\ scheduler.response \notin
          {FailureResponse(m) : m \in PublishErrors}

\* C14 as amended: the step that ends the sequential fan-out answers 500
\* with the failure text and the error's message when the awaited publish
\* failed, whether or not chunks were received before, and 200 with the
\* success text when it was received.
C14_FailureDistinctFromSuccess ==
  [][(/\ scheduler.route = "sequential"
      /\ scheduler.pc \in {"flush", "flushFinal"}
      /\ scheduler'.pc = "done")
     => IF qstash'.received = qstash.received
        THEN /\ scheduler'.response.status = 500
             /\ Len(scheduler'.response.text) = 2
             /\ scheduler'.response.text[1]
                  = "Failed to schedule scraping jobs: "
             /\ scheduler'.response.text[2] \in PublishErrors
        ELSE /\ scheduler'.response.status = 200
             /\ scheduler'.response.text[1] = "Successfully scheduled "
    ]_vars

\* C14 witness: the third publish failed after two chunks were received
\* and the fan-out answered 500.
C14_Witness ==
  /\ scheduler.route = "sequential" /\ scheduler.pc = "done"
  /\ scheduler.response.status = 500
  /\ Len(qstash.received) = 2
  /\ scheduler.batchCount = 3

\* C15: at most one publish call is in flight.
C15_PublishCallsCapped ==
  Cardinality(DOMAIN qstash.inFlight) <= 1

\* C16: parseAllCookies of a header of N definitions with different names
\* returns exactly N cookies, under the names and with the values of the
\* definitions.
C16_ExactlyTheDefinitions ==
  LET definitions == cookieCall.definitions
      N == Len(definitions)
      names == {definitions[k][1] : k \in 1..N}
  IN (cookieCall.returned /\ Cardinality(names) = N)
     => /\ Cardinality(DOMAIN cookieCall.cookies) = N
        /\ DOMAIN cookieCall.cookies = names
        /\ \A k \in 1..N :
             cookieCall.cookies[definitions[k][1]].value = definitions[k][3]

\* the events the parse emitted for tile t of cell c
EmittedFor(c, t) ==
  LET cell == parseCall.cells[c]
      id == cell.tiles[t].brikid[2]
      events == IF cell.date \in DOMAIN parseCall.eventsByDate
                THEN parseCall.eventsByDate[cell.date] ELSE <<>>
  IN {events[n] : n \in {m \in 1..Len(events) : events[m].id = id}}

\* C17: a tile whose first line is "Aflyst!" yields one event, CANCELLED
\* and with lastChangedAt the instant of the parse; "Ændret!" likewise
\* with MOVED; the event of any other tile is OK and has no lastChangedAt;
\* but for status and lastChangedAt the event of a tile with a marker is
\* the event of the same tile without its marker line.
C17_StatusFromMarker ==
  parseCall.returned =>
    \A c \in 1..Len(parseCall.cells) :
      \A t \in 1..Len(parseCall.cells[c].tiles) :
        LET tile == parseCall.cells[c].tiles[t]
            first == tile.tooltip[1]
            marked == first \in {<<"Aflyst!">>, <<"Ændret!">>}
            plain == TileEvents([tile EXCEPT !.tooltip = Tail(@)],
                                now, tzOffset)
        IN /\ (marked /\ Len(plain) = 1) => Cardinality(EmittedFor(c, t)) = 1
           /\ \A e \in EmittedFor(c, t) :
                /\ first = <<"Aflyst!">> => e.status = "CANCELLED"
                /\ first = <<"Ændret!">> => e.status = "MOVED"
                /\ marked =>
                     /\ "lastChangedAt" \in DOMAIN e
                     /\ e.lastChangedAt = now
                     /\ Len(plain) = 1
                     /\ DOMAIN e = (DOMAIN plain[1]) \cup {"lastChangedAt"}
                     /\ \A f \in (DOMAIN plain[1]) \ {"status"} :
                          e[f] = plain[1][f]
                /\ ~marked =>
                     /\ e.status = "OK"
                     /\ "lastChangedAt" \notin DOMAIN e

\* C17 witness: a page with a cancelled, a changed and an unchanged lesson
\* was parsed into events of the three statuses.
C17_Witness ==
  /\ parseCall.returned
  /\ parseCall.cells[1].tiles = <<TileCancelled, TileMoved>>
  /\ parseCall.cells[2].tiles = <<TileNextDay>>
  /\ Len(parseCall.eventsByDate["2025-10-20"]) = 2
  /\ parseCall.eventsByDate["2025-10-20"][1].status = "CANCELLED"
  /\ parseCall.eventsByDate["2025-10-20"][2].status = "MOVED"
  /\ parseCall.eventsByDate["2025-10-20"][2].lastChangedAt = now
  /\ parseCall.eventsByDate["2025-10-21"][1].status = "OK"

\* the lines of a tooltip
LinesOf(tile) == {tile.tooltip[n] : n \in 1..Len(tile.tooltip)}

\* a line "DD/MM-YYYY HH:MM til HH:MM"
IsRangeLine(line) ==
  /\ Len(line) = 5
  /\ DayNumber(line[1]) # Undefined /\ line[2] = " "
  /\ MinuteOfDay(line[3]) # Undefined /\ line[4] = " til "
  /\ MinuteOfDay(line[5]) # Undefined

\* C18: the event of a tile with the time line "DD/MM-YYYY HH:MM til
\* HH:MM" starts on that date at the first time and ends on that date at
\* the second time, on a machine of any time zone.
C18_EndOnStartDate ==
  parseCall.returned =>
    \A c \in 1..Len(parseCall.cells) :
      \A t \in 1..Len(parseCall.cells[c].tiles) :
        \A line \in LinesOf(parseCall.cells[c].tiles[t]) :
          IsRangeLine(line) =>
            \A e \in EmittedFor(c, t) :
              /\ e.startAt = DayNumber(line[1]) * MinutesPerDay
                               + MinuteOfDay(line[3])
              /\ e.endAt = DayNumber(line[1]) * MinutesPerDay
                             + MinuteOfDay(line[5])

\* a time line without an end time: the all-day literal after the date,
\* or a start time and a separator that no HH:MM follows
HasNoEndTime(line) ==
  /\ Len(line) >= 3
  /\ DayNumber(line[1]) # Undefined /\ line[2] = " "
  /\ \/ line[3] = "Hele dagen"
     \/ /\ Len(line) = 5 /\ MinuteOfDay(line[3]) # Undefined
        /\ line[4] = " til " /\ MinuteOfDay(line[5]) = Undefined

\* C19: a tile whose time line has no end time, the all-day line among
\* them, yields one event and its end is its start plus two hours.
C19_AllDayEmitted ==
  parseCall.returned =>
    \A c \in 1..Len(parseCall.cells) :
      \A t \in 1..Len(parseCall.cells[c].tiles) :
        (\E line \in LinesOf(parseCall.cells[c].tiles[t]) :
           HasNoEndTime(line))
        => /\ Cardinality(EmittedFor(c, t)) = 1
           /\ \A e \in EmittedFor(c, t) : e.endAt = e.startAt + 120

\* the tiles of a cell whose time line holds a start time, in their order
RECURSIVE WithStart(_)
WithStart(tiles) ==
  IF tiles = <<>> THEN <<>>
  ELSE (IF \E line \in LinesOf(Head(tiles)) :
             /\ Len(line) >= 4
             /\ DayNumber(line[1]) # Undefined /\ line[2] = " "
             /\ MinuteOfDay(line[3]) # Undefined
             /\ line[4] = " til "
        THEN <<Head(tiles)>> ELSE <<>>) \o WithStart(Tail(tiles))

\* every tile with a start time is emitted, in document order, and no
\* other tile is
OthersEmittedInOrder ==
  \A c \in 1..Len(parseCall.cells) :
    LET cell == parseCall.cells[c]
        kept == WithStart(cell.tiles)
        events == IF cell.date \in DOMAIN parseCall.eventsByDate
                  THEN parseCall.eventsByDate[cell.date] ELSE <<>>
    IN /\ Len(events) = Len(kept)
       /\ \A n \in 1..Len(kept) : events[n].id = kept[n].brikid[2]

\* the number of tiles of the page that were left out
Omitted ==
  LET RECURSIVE Sum(_)
      Sum(c) ==
        IF c = 0 THEN 0
        ELSE Len(parseCall.cells[c].tiles)
               - Len(WithStart(parseCall.cells[c].tiles)) + Sum(c - 1)
  IN Sum(Len(parseCall.cells))

\* C20: the parse returns, it emits every tile with a start time in
\* document order and leaves out the others, and it keeps a counter of the
\* tiles it left out.
C20_SkippedCounted ==
  parseCall.returned =>
    /\ OthersEmittedInOrder
    /\ "skipped" \in DOMAIN parseCall.counters
    /\ parseCall.counters.skipped = Omitted

\* C21: the step that takes up a job without studentId ends the invocation
\* with status 400 and changes nothing else: nothing is loaded, no request
\* is sent, no credential and no day document is written.
C21_MissingStudentIdRejected ==
  [][\A i \in Invocations :
       (inv[i].pc = "idle" /\ inv'[i].pc # "idle"
          /\ inv'[i].studentId = "")
       => /\ inv'[i] = [IdleInvocation EXCEPT !.pc = "done", !.status = 400]
          /\ lectioCreds' = lectioCreds
          /\ schedules' = schedules
          /\ dayWrites' = dayWrites]_vars

\* C21 witness: one invocation was rejected with 400 and has loaded, sent
\* and written nothing, while the other one has stored days.
C21_Witness ==
  \E i \in Invocations, j \in Invocations :
    /\ inv[i].pc = "done" /\ inv[i].status = 400
    /\ inv[i].studentId = "" /\ inv[i].storedCookies = EmptyObject
    /\ inv[i].finalResponse = NoResponse /\ inv[i].credWrites = 0
    /\ inv[j].pc = "done" /\ inv[j].status = 200
    /\ DOMAIN schedules = DOMAIN inv[j].batch /\ DOMAIN schedules # {}


\* C22: the credential document is written with the invocation's cookie jar
\* only after its day documents were committed: an invocation that is about
\* to parse or to commit, or whose commit failed, has not written the
\* credential document.
C22_SaveAfterCommit ==
  \A i \in Invocations :
    (\/ inv[i].pc \in {"parse", "commit"}
     \/ inv[i].pc = "done" /\ inv[i].thrown = "PersistenceError")
    => inv[i].credWrites = 0


\* C23: no entry of a stored cookie jar, of the updated cookies of a fetch
\* or of the jar a fetch is about to store has an empty value.
C23_NoEmptyCookieValue ==
  /\ \A d \in DOMAIN lectioCreds :
       \A n \in DOMAIN lectioCreds[d].cookies :
         lectioCreds[d].cookies[n].value # ""
  /\ \A i \in Invocations :
       /\ \A n \in DOMAIN inv[i].updatedCookies :
            inv[i].updatedCookies[n].value # ""
       /\ \A n \in DOMAIN inv[i].completeCookieJar :
            inv[i].completeCookieJar[n].value # ""


\* C24: in every credential document the top-level autologinkey equals the
\* value of the autologinkeyV2 cookie of the stored jar, and a write of the
\* jar that changes that cookie's value changes the top-level field in the
\* same step.
C24_MirrorFollowsJar ==
  \A d \in DOMAIN lectioCreds :
    "autologinkeyV2" \in DOMAIN lectioCreds[d].cookies
    => /\ "autologinkey" \in DOMAIN lectioCreds[d]
       /\ lectioCreds[d].autologinkey =
            lectioCreds[d].cookies["autologinkeyV2"].value

\* C24 witness: one save rotated the key from k1 to k2 and the mirror
\* holds k2, and a later save of the other invocation changed the session
\* cookie as well.
C24_Witness ==
  \E i \in Invocations, j \in Invocations :
    /\ i # j
    /\ inv[i].pc = "done" /\ inv[i].credWrites = 1 /\ inv[i].status = 200
    /\ "autologinkeyV2" \in DOMAIN inv[i].updatedCookies
    /\ inv[i].updatedCookies["autologinkeyV2"].value = "k2"
    /\ inv[j].pc = "done" /\ inv[j].credWrites = 1 /\ inv[j].status = 200
    /\ DOMAIN inv[j].updatedCookies = {"ASP.NET_SessionId"}
    /\ inv[j].storedCookies["autologinkeyV2"].value = "k2"
    /\ lectioCreds["7272"].autologinkey = "k2"
    /\ lectioCreds["7272"].cookies["autologinkeyV2"].value = "k2"
    /\ lectioCreds["7272"].cookies["ASP.NET_SessionId"].value = "sid2"


\* C25: no step removes or adds a credential document, and the step that
\* takes up a job for a student without a credential document ends the
\* invocation with the failure NotFound, without a request sent and
\* without a change of any credential document.
C25_CredentialsNeverDeleted ==
  [][/\ DOMAIN lectioCreds' = DOMAIN lectioCreds
     /\ \A i \in Invocations :
          (/\ inv[i].pc = "idle" /\ inv'[i].pc # "idle"
           /\ inv'[i].studentId # ""
           /\ inv'[i].studentId \notin DOMAIN lectioCreds)
          => /\ inv'[i].pc = "done"
             /\ inv'[i].thrown = "NotFound"
             /\ inv'[i].requests = 0
             /\ inv'[i].finalResponse = NoResponse
             /\ lectioCreds' = lectioCreds]_vars

\* C25 witness: a scrape for the unknown student 9999 failed with NotFound,
\* and the document of student 7272 is still stored after its invalidation.
C25_Witness ==
  \E i \in Invocations, j \in Invocations :
    /\ inv[i].pc = "done" /\ inv[i].studentId = "9999"
    /\ inv[i].thrown = "NotFound" /\ inv[i].finalResponse = NoResponse
    /\ inv[j].pc = "done" /\ inv[j].studentId = "7272"
    /\ inv[j].markCalls = 1
    /\ DOMAIN lectioCreds = {"7272"}
    /\ lectioCreds["7272"].active = FALSE


\* C27: the step that ends a fetch with a network error or with a response
\* whose status is not 2xx changes no credential document and no day
\* document, and the invocation it ends has written nothing: no cookie
\* save, no invalidation, no batch.
C27_TransientFailureWritesNothing ==
  [][\A i \in Invocations :
       (/\ inv[i].pc = "request"
        /\ inv'[i].thrown \in {"NetworkError", "HttpError"})
       => /\ lectioCreds' = lectioCreds
          /\ schedules' = schedules
          /\ dayWrites' = dayWrites
          /\ inv'[i].pc = "done" /\ inv'[i].status = 500
          /\ inv'[i].credWrites = 0 /\ inv'[i].markCalls = 0
          /\ inv'[i].batch = EmptyObject]_vars

\* C27 witness: one invocation ended by a transport failure and the other
\* by a response of status 500; the credential document is the initial one
\* and no day document exists.
C27_Witness ==
  \E i \in Invocations, j \in Invocations :
    /\ inv[i].pc = "done" /\ inv[i].thrown = "NetworkError"
    /\ inv[j].pc = "done" /\ inv[j].thrown = "HttpError"
    /\ inv[j].finalResponse.status = 500
    /\ lectioCreds = ("7272" :> InitialCredential)
    /\ schedules = EmptyObject
    /\ dayWrites = EmptyObject


\* C26: the key getWeekKey returns for a date is the two-digit ISO 8601
\* week number followed by the ISO week-numbering year of the calendar day
\* the date falls on in the machine's time zone.
C26_WeekKeyIsIso ==
  weekCall.returned
  => weekCall.key = IsoWeekKey((weekCall.date + tzOffset) \div MinutesPerDay)


\* the lines of a tooltip the line loop runs over: trimmed, and without
\* the status line
LoopLines(tile) ==
  LET split == TrimAll(tile.tooltip)
  IN IF split[1] \in {<<"Aflyst!">>, <<"Ændret!">>} THEN Tail(split)
     ELSE split

\* C28: the time of a tile's event is the first line of the tile that
\* holds the range separator or the all-day literal, whatever lines follow
\* it, and a tile whose first such line gives a start yields its event.
C28_FirstTimeLineKept ==
  parseCall.returned =>
    \A c \in 1..Len(parseCall.cells) :
      \A t \in 1..Len(parseCall.cells[c].tiles) :
        LET lines == LoopLines(parseCall.cells[c].tiles[t])
            hits == {i \in 1..Len(lines) : IsTimeLine(lines[i])}
        IN hits # {} =>
             LET first == lines[FirstIndex(hits)]
             IN /\ parseDateTime(first) # Undefined
                     => Cardinality(EmittedFor(c, t)) = 1
                /\ \A e \in EmittedFor(c, t) :
                     /\ e.time = JoinTokens(first)
                     /\ e.startAt = parseDateTime(first)

\* C29: the title of a tile's event is the first line of the tile, the
\* line of index 0 left aside, that is not blank, starts with none of the
\* labels and is not a time line; the event has no title when the tile has
\* no such line.
C29_TitleFirstUnlabelled ==
  parseCall.returned =>
    \A c \in 1..Len(parseCall.cells) :
      \A t \in 1..Len(parseCall.cells[c].tiles) :
        LET lines == LoopLines(parseCall.cells[c].tiles[t])
            free == {i \in 2..Len(lines) :
                       /\ lines[i] # <<>>
                       /\ ~IsTimeLine(lines[i])
                       /\ \A l \in Labels : ~StartsWith(lines[i], l)}
        IN \A e \in EmittedFor(c, t) :
             IF free = {} THEN "title" \notin DOMAIN e
             ELSE /\ "title" \in DOMAIN e
                  /\ e.title = JoinTokens(lines[FirstIndex(free)])

\* C29 witness: of two tiles parsed, one has two lines without a label
\* after its time line and its title is the first of them, the other has
\* such a line only at index 0, after its status line, and has no title.
C29_Witness ==
  /\ parseCall.returned
  /\ parseCall.cells[1].tiles = <<TileTitled, TileTitleFirst>>
  /\ Len(parseCall.eventsByDate["2025-10-20"]) = 2
  /\ parseCall.eventsByDate["2025-10-20"][1].title = "Matematik"
  /\ parseCall.eventsByDate["2025-10-20"][2].status = "MOVED"
  /\ "title" \notin DOMAIN parseCall.eventsByDate["2025-10-20"][2]

\* the lines from index j on up to, and without, the first blank line or
\* line of the other section's label
RECURSIVE SectionLines(_, _, _)
SectionLines(lines, j, other) ==
  IF j > Len(lines) THEN <<>>
  ELSE IF lines[j] = <<>> \/ StartsWith(lines[j], other) THEN <<>>
  ELSE <<lines[j]>> \o SectionLines(lines, j + 1, other)

\* the text of the section that starts at line i with the given label
SectionText(lines, i, label, other) ==
  JoinTokens(Trim(JoinLines(<<Trim(Replace(lines[i], label))>>
                              \o SectionLines(lines, i + 1, other))))

\* C30: the note of a tile's event is the text of its Note: line and of the
\* lines after it up to the first blank line or Lektier: line, its homework
\* the text of its Lektier: line and of the lines after it up to the first
\* blank line or Note: line, and none of the lines after a section's own
\* line that the section collected is the event's title or time.
C30_SectionsConsumeLines ==
  parseCall.returned =>
    \A c \in 1..Len(parseCall.cells) :
      \A t \in 1..Len(parseCall.cells[c].tiles) :
        LET lines == LoopLines(parseCall.cells[c].tiles[t])
            collected(i, other) ==
              {JoinTokens(lines[k]) :
                 k \in (i + 1)..(i + Len(SectionLines(lines, i + 1, other)))}
            kept(e, i, other) ==
              \A x \in collected(i, other) :
                /\ e.time # x
                /\ "title" \in DOMAIN e => e.title # x
        IN \A e \in EmittedFor(c, t) :
             \A i \in 1..Len(lines) :
               /\ StartsWith(lines[i], "Note:") =>
                    /\ "note" \in DOMAIN e
                    /\ e.note = SectionText(lines, i, "Note:", "Lektier:")
                    /\ kept(e, i, "Lektier:")
               /\ StartsWith(lines[i], "Lektier:") =>
                    /\ "homework" \in DOMAIN e
                    /\ e.homework = SectionText(lines, i, "Lektier:", "Note:")
                    /\ kept(e, i, "Note:")


\* C31: the classKey of an event is the value of the tile's Hold: line, or
\* "unknown" when the tile has no such line or an empty one; its subject is
\* that value when there is one, else its title when it has one, else
\* "Ukendt".
C31_SubjectAndClassKey ==
  parseCall.returned =>
    \A c \in 1..Len(parseCall.cells) :
      \A t \in 1..Len(parseCall.cells[c].tiles) :
        LET lines == LoopLines(parseCall.cells[c].tiles[t])
            hits == {i \in 1..Len(lines) :
                       StartsWith(lines[i], "Hold:") /\ ~IsTimeLine(lines[i])}
            hold == IF hits = {} THEN ""
                    ELSE JoinTokens(Trim(Replace(
                           lines[CHOOSE i \in hits : \A j \in hits : j <= i],
                           "Hold:")))
        IN \A e \in EmittedFor(c, t) :
             /\ e.classKey = IF hold # "" THEN hold ELSE "unknown"
             /\ e.subject = IF hold # "" THEN hold
                            ELSE IF "title" \in DOMAIN e THEN e.title
                            ELSE "Ukendt"

\* C31 witness: three tiles were parsed: one with a title and no class,
\* one with an empty class and no title, one with a class and a title.
C31_Witness ==
  /\ parseCall.returned
  /\ parseCall.cells[1].tiles = <<TileNoHold, TileEmptyHold>>
  /\ parseCall.cells[2].tiles = <<TileTitled>>
  /\ Len(parseCall.eventsByDate["2025-10-20"]) = 2
  /\ parseCall.eventsByDate["2025-10-20"][1].subject = "Matematik"
  /\ parseCall.eventsByDate["2025-10-20"][1].classKey = "unknown"
  /\ parseCall.eventsByDate["2025-10-20"][2].subject = "Ukendt"
  /\ parseCall.eventsByDate["2025-10-20"][2].classKey = "unknown"
  /\ parseCall.eventsByDate["2025-10-21"][1].subject = "1a MA"
  /\ parseCall.eventsByDate["2025-10-21"][1].classKey = "1a MA"
  /\ parseCall.eventsByDate["2025-10-21"][1].title = "Matematik"


\* C32: of a header of definitions with different names, the cookie of a
\* definition with an Expires date expires at that date, the cookie of a
\* definition with Max-Age only at the instant of the call plus the
\* seconds, and the cookie of a definition with neither has no expiresAt
\* field; no cookie has an undefined expiresAt.
C32_ExpiryFromAttributes ==
  LET definitions == cookieCall.definitions
      N == Len(definitions)
  IN (/\ cookieCall.returned
      /\ \A a \in 1..N, b \in 1..N : a # b => definitions[a][1] # definitions[b][1])
     => /\ \A n \in DOMAIN cookieCall.cookies :
             "expiresAt" \in DOMAIN cookieCall.cookies[n]
             => cookieCall.cookies[n].expiresAt # Undefined
        /\ \A k \in 1..N :
             LET d == definitions[k]
                 e == ExpiresIndex(d)
                 m == MaxAgeIndex(d)
             IN /\ d[1] \in DOMAIN cookieCall.cookies
                /\ LET cookie == cookieCall.cookies[d[1]]
                   IN IF e # 0
                      THEN /\ "expiresAt" \in DOMAIN cookie
                           /\ cookie.expiresAt =
                                NewDate(UpToSemicolon(d, e + 2))
                      ELSE IF m # 0
                      THEN /\ "expiresAt" \in DOMAIN cookie
                           /\ cookie.expiresAt = now + ParseDigits(d[m + 2])
                      ELSE "expiresAt" \notin DOMAIN cookie


\* C33: a save by an invocation that loaded the credential while it was
\* active, and finds it marked inactive since, leaves it inactive.
C33_StaleSaveKeepsInactive ==
  [][\A i \in Invocations :
       (/\ inv[i].pc = "save" /\ inv'[i].pc = "parse"
        /\ inv[i].credsActive
        /\ ~lectioCreds[inv[i].studentId].active)
       => ~lectioCreds'[inv[i].studentId].active]_vars


ValidJobs(docs) ==
  LET valid == ValidPositions(docs)
      bad == (1..Len(docs)) \ valid
      pos(n) == CHOOSE p \in n..(n + Cardinality(bad)) :
                  p \in valid /\ p - Cardinality({b \in bad : b < p}) = n
  IN [n \in 1..Cardinality(valid) |-> ScrapeJob(docs[pos(n)])]

\* the jobs of the chunks the queue received, in the order of reception
RECURSIVE Flatten(_)
Flatten(chunks) ==
  IF chunks = <<>> THEN <<>> ELSE Head(chunks) \o Flatten(Tail(chunks))

\* C35: a sequential fan-out that has ended has no call in flight; when it
\* ended with success the chunks received, one after the other, are the
\* jobs of the well-formed documents in the order of the enumeration, each
\* once; when it ended with the failure of publish call k it answers 500
\* and the queue holds the k - 1 chunks published before, which are the
\* first 100 * (k - 1) of those jobs, and nothing of a later chunk.
C35_PublishedOnceInOrder ==
  (scheduler.route = "sequential" /\ scheduler.pc = "done"
     /\ Len(snapshot) > 0)
  => LET jobs == ValidJobs(snapshot)
         flat == Flatten(qstash.received)
         k == scheduler.batchCount
     IN /\ qstash.inFlight = EmptyObject
        /\ scheduler.response.status \in {200, 500}
        /\ scheduler.response.status = 200 => flat = jobs
        /\ scheduler.response.status = 500 =>
             /\ k >= 1
             /\ Len(qstash.received) = k - 1
             /\ 100 * (k - 1) < Len(jobs)
             /\ flat = SubSeq(jobs, 1, 100 * (k - 1))
             /\ scheduler.response.text[1]
                  = "Failed to schedule scraping jobs: "

\* C35 witness: of an enumeration of 250 documents with a malformed one
\* the third publish failed: the fan-out answered 500 and the queue holds
\* the first two chunks.
C35_Witness ==
  /\ scheduler.route = "sequential" /\ scheduler.pc = "done"
  /\ scheduler.response.status = 500
  /\ Len(snapshot) = 250 /\ scheduler.skippedJobs = 1
  /\ scheduler.batchCount = 3
  /\ Len(qstash.received) = 2
  /\ Flatten(qstash.received) = SubSeq(ValidJobs(snapshot), 1, 200)


\* C36: the number of batches a sequential fan-out reports with its
\* success is the number of publish calls it made: the counter batchCount,
\* the number of chunks the queue received, and the reported total divided
\* by 100 and rounded up are all equal.
C36_ReportedBatchesAreCalls ==
  (scheduler.route = "sequential" /\ scheduler.pc = "done"
     /\ scheduler.response.status = 200 /\ Len(snapshot) > 0)
  => /\ scheduler.response.text[2] = ToString(scheduler.totalJobs)
     /\ scheduler.response.text[4] = ToString(scheduler.batchCount)
     /\ scheduler.batchCount = Len(qstash.received)
     /\ scheduler.batchCount = (scheduler.totalJobs + 99) \div 100

\* C36 witness: 201 well-formed documents among 202 were published by
\* three calls, the last of a single job, and the answer reports three
\* batches.
C36_Witness ==
  /\ scheduler.route = "sequential" /\ scheduler.pc = "done"
  /\ scheduler.response.status = 200
  /\ Len(snapshot) = 202 /\ scheduler.skippedJobs = 1
  /\ scheduler.totalJobs = 201 /\ scheduler.batchCount = 3
  /\ Len(qstash.received) = 3 /\ Len(qstash.received[3]) = 1
  /\ scheduler.response.text[4] = "3"


\* C37: the commit of an invocation leaves the day document of every date
\* of its page whose tiles gave no event as it was: the date is not in the
\* batch, a document stored for it before is the same afterwards, and none
\* is created for it.
C37_EmptyDayNotWritten ==
  [][\A i \in Invocations :
       (inv[i].pc = "commit" /\ inv'[i].pc = "done")
       => \A c \in 1..Len(inv[i].html.cells) :
            LET cell == inv[i].html.cells[c]
                k == <<inv[i].schoolId, inv[i].studentId, cell.date>>
            IN CellEvents(cell.tiles, inv[i].parsedAt, tzOffset) = <<>>
               => /\ k \notin DOMAIN inv[i].batch
                  /\ k \in DOMAIN schedules' <=> k \in DOMAIN schedules
                  /\ k \in DOMAIN schedules => schedules'[k] = schedules[k]
                  /\ k \in DOMAIN dayWrites' <=> k \in DOMAIN dayWrites
                  /\ k \in DOMAIN dayWrites => dayWrites'[k] = dayWrites[k]
    ]_vars

\* C37 witness: one scrape stored both days of the week, a later one whose
\* page had no lesson on the second day committed the first day again, and
\* the second day still holds the events and the hash of the first scrape.
C37_Witness ==
  \E i \in Invocations, j \in Invocations :
    LET k20 == <<"94", "7272", "2025-10-20">>
        k21 == <<"94", "7272", "2025-10-21">>
    IN /\ inv[j].pc = "done" /\ inv[j].status = 200
       /\ inv[j].html = PagePlain
       /\ inv[i].pc = "done" /\ inv[i].status = 200
       /\ inv[i].html = PageOneDay
       /\ DOMAIN inv[i].batch = {k20}
       /\ DOMAIN schedules = {k20, k21}
       /\ dayWrites[k20] = 2 /\ dayWrites[k21] = 1
       /\ schedules[k21] = inv[j].batch[k21]
       /\ schedules[k21].events # <<>>
       /\ schedules[k20] = inv[i].batch[k20]


\* C38: every request of a fetch, the first and the one of each redirect
\* hop, carries the cookies of the jar the fetch was given, whatever the
\* redirect responses set; and the updated cookies of a fetch that ends
\* successfully are those of the Set-Cookie header of the last response
\* alone, none when it has no such header.
C38_SameCookiesOnEveryHop ==
  [][\A i \in Invocations :
       /\ inv'[i].requests > inv[i].requests
          => inv'[i].cookieParts =
               [n \in {m \in DOMAIN inv'[i].storedCookies :
                         inv'[i].storedCookies[m].value # ""} |->
                  inv'[i].storedCookies[n].value]
       /\ (inv[i].pc = "request" /\ inv'[i].pc \in {"save", "parse"})
          => LET last == parseAllCookies(
                           HeadersGet(inv'[i].finalResponse.setCookie), now)
             IN /\ DOMAIN inv'[i].updatedCookies \subseteq DOMAIN last
                /\ \A n \in DOMAIN inv'[i].updatedCookies :
                     inv'[i].updatedCookies[n] = last[n]
                /\ inv'[i].finalResponse.setCookie = <<>>
                     => inv'[i].updatedCookies = EmptyObject]_vars

\* C38 witness: a redirect response rotated the key to k2 and the request
\* of the next hop was sent with the key k1 of the stored jar.
C38_Witness ==
  \E i \in Invocations :
    /\ inv[i].pc = "request" /\ inv[i].requests = 2
    /\ inv[i].finalResponse.status = 302
    /\ inv[i].finalResponse.setCookie = <<SetKey>>
    /\ inv[i].cookieParts =
         ("autologinkeyV2" :> "k1") @@ ("ASP.NET_SessionId" :> "sid1")


\* C39: a cookie the last response set to the value sent is not among the
\* updated cookies of the fetch, whatever expiry the response gave it, and
\* no step of the invocation changes the stored entry of that cookie.
C39_SameValueKeepsExpiry ==
  [][\A i \in Invocations :
       (inv'[i].pc \in {"save", "parse", "commit"}
          \/ (inv'[i].pc = "done"
                /\ inv'[i].thrown \in {"", "StoreError", "PersistenceError"}
                /\ inv'[i].status # 400))
       => LET last == parseAllCookies(
                         HeadersGet(inv'[i].finalResponse.setCookie), now)
              same == {n \in (DOMAIN last) \cap (DOMAIN inv'[i].storedCookies) :
                         last[n].value = inv'[i].storedCookies[n].value}
          IN \A n \in same :
            /\ n \notin DOMAIN inv'[i].updatedCookies
            /\ inv'[i] # inv[i] =>
                 lectioCreds'[inv'[i].studentId].cookies[n]
                   = lectioCreds[inv'[i].studentId].cookies[n]]_vars


\* C40: when the fetch failed with a session-invalid error and the update of
\* markCredentialsInactive fails, the invocation ends as session-invalid with
\* status 403, not as a generic failure, and no credential, schedule or day
\* record is written.
C40_FailedMarkStaysSessionInvalid ==
  [][\A i \in Invocations :
       (inv[i].pc = "mark" /\ inv'[i] # inv[i] /\ lectioCreds' = lectioCreds)
       => /\ inv'[i].pc = "done"
          /\ inv'[i].status = 403
          /\ inv'[i].thrown = "SessionInvalid"
          /\ inv'[i].error = inv[i].error
          /\ inv'[i].batch = <<>>
          /\ schedules' = schedules
          /\ dayWrites' = dayWrites]_vars

\* one invocation alone met the robot page and its invalidation failed: the
\* credential is still active and the answer is 403
C40_Witness ==
  \E i \in Invocations :
    /\ inv[i].pc = "done" /\ inv[i].thrown = "SessionInvalid"
    /\ inv[i].status = 403 /\ inv[i].markCalls = 1
    /\ inv[i].credsActive
    /\ lectioCreds[inv[i].studentId].active
    /\ lectioCreds[inv[i].studentId].updatedAt = 0
    /\ \A j \in Invocations \ {i} : inv[j].pc = "idle"
    /\ dayWrites = <<>>

====
